---- MODULE Spec2Model ----
(***************************************************************************)
(* Model of the workflow generator (sebs/faas/fsm.py, sebs/aws/generator.py)*)
(* and of the invocation triggers (sebs/aws/triggers.py,                   *)
(* sebs/azure/triggers.py) of the serverless benchmark suite, of the       *)
(* deployment system (sebs/faas/system.py, sebs/azure/azure.py) and of the *)
(* AWS function wrapper (benchmarks/wrappers/aws/python/handler.py).       *)
(*                                                                         *)
(* Python values are represented as follows.  A dict is a function from    *)
(* its string keys to its values, a list is a sequence, None is the string *)
(* None, and a raised exception is a result record [ok |-> FALSE,          *)
(* err |-> <exception class>].  A dict whose insertion order matters (the  *)
(* states of a definition, the branches of a Parallel) is a sequence of    *)
(* [name, doc] entries with distinct names.                                *)
(***************************************************************************)
EXTENDS Integers, Sequences, FiniteSets, TLC

VARIABLES
    func_arns,   \* SFNGenerator._func_arns: function name -> resource id
    loaded,      \* "no" | "yes" | "statesOnly": which of states/root are set
    perr,        \* the exception parse() raised, None if none
    states,      \* Generator.states, in declaration order
    root,        \* name of Generator.root, None while unset
    gpc,         \* position of generate(): "idle" or "loop"
    idx,         \* generate(): number of states already encoded
    payloads,    \* generate(): the local list payloads
    docs,        \* results of the generate() calls on the current graph, oldest first
    exports,     \* number of calls of the export function
    inv,         \* the invocations: per slot, the trigger call and its thread
    file,        \* content of the local file payload.json, <<>> while absent
    trigger,     \* the trigger object of the deployment
    cached,      \* the record the trigger was serialized to, EmptyDict if none
    restored,    \* the trigger deserialized from the record
    provisioned, \* the resources the constructors have created, oldest first
    args,        \* the arguments the deployment's trigger was constructed with
    cache_functions, \* the cache's entries of the benchmark: name -> record
    benchmarks,  \* code_package.benchmarks: the entries as last queried
    last_call,   \* the latest get_function / get_workflow call and its effects
    ncalls,      \* number of get_function / get_workflow calls made
    locked,      \* whether the cache lock is held
    shut,        \* the shutdown() call and its effects, once made
    ppc,         \* position of publish_benchmark: "idle", "loop" or "done"
    repeat_on_failure, \* the flag publish_benchmark was called with
    attempts,    \* the publish attempts made: what the CLI answered, oldest first
    waits,       \* the seconds publish_benchmark has slept, oldest first
    published,   \* what publish_benchmark returned or raised
    cold_run,    \* content of the container's file /tmp/cold_run, None while absent
    wrapped,     \* the latest invocation of the wrapper and its effects
    ninv         \* number of invocations the container has served

gvars == <<func_arns, loaded, perr, states, root, gpc, idx, payloads, docs, exports>>

tvars == <<inv, file>>

svars == <<trigger, cached, restored, provisioned, args>>

yvars == <<cache_functions, benchmarks, last_call, ncalls, locked, shut>>

\* The variables of the deployment system, the publishing and the wrapper.
pvars == <<ppc, repeat_on_failure, attempts, waits, published>>

wvars == <<cold_run, wrapped, ninv>>

xvars == <<yvars, pvars, wvars>>

vars == <<gvars, tvars, svars, xvars>>

-----------------------------------------------------------------------------
(* Bounds *)

MaxStates == 2      \* states in a definition
MaxRuns == 2        \* generate() calls on one generator
MaxChain == 3       \* Task states an execution of a document runs through
MaxBranches == 3    \* branches of a Parallel state

-----------------------------------------------------------------------------
(* Python helpers *)

None == "<None>"

\* Truth value of an Optional[str] in an if.
Truthy(s) == s # None /\ s # ""

Ok(v) == [ok |-> TRUE, val |-> v]
Raise(e) == [ok |-> FALSE, err |-> e]

\* d[k] = v on a dict.
DictPut(d, k, v) == (k :> v) @@ d

\* del d[k].
DictDel(d, k) == [x \in DOMAIN d \ {k} |-> d[x]]


\* The deployment system before any call.
NoCall ==
    [op |-> None, name |-> None, hash |-> None, rebuilt |-> FALSE, cached |-> FALSE,
     old_hash |-> None, calls |-> <<>>, ret |-> Raise(None)]

NoShutdown == [done |-> FALSE, update |-> None, calls |-> <<>>, err |-> None]

SysIdle ==
    /\ cache_functions = <<>>
    /\ benchmarks = <<>>
    /\ last_call = NoCall
    /\ ncalls = 0
    /\ locked = FALSE
    /\ shut = NoShutdown

PubIdle ==
    /\ ppc = "idle"
    /\ repeat_on_failure = FALSE
    /\ attempts = <<>>
    /\ waits = <<>>
    /\ published = Raise(None)

NoInvocation ==
    [kind |-> None, function |-> None, request_id |-> None, logs |-> FALSE,
     returned |-> FALSE, sent |-> <<>>, response |-> <<>>, uploads |-> <<>>, err |-> None]

WrapIdle ==
    /\ cold_run = None
    /\ wrapped = NoInvocation
    /\ ninv = 0

\* Literal values of a case: a number or a string.
Num(n) == [t |-> "num", n |-> n, s |-> ""]
Str(s) == [t |-> "str", n |-> 0, s |-> s]

-----------------------------------------------------------------------------
(* sebs/faas/fsm.py: the state classes *)

Task(name, func_name, next) ==
    [kind |-> "task", name |-> name, func_name |-> func_name, next |-> next]

Case(var, op, val, next) == [var |-> var, op |-> op, val |-> val, next |-> next]

Switch(name, cases, default) ==
    [kind |-> "switch", name |-> name, cases |-> cases, default |-> default]

\* common_params is the comma-separated parameter string, held as the list of
\* its segments; <<>> is the absent (falsy) value.
Map(name, func_name, array, next, common_params) ==
    [kind |-> "map", name |-> name, func_name |-> func_name, array |-> array,
     next |-> next, common_params |-> common_params]

Loop(name, func_name, array, next) ==
    [kind |-> "loop", name |-> name, func_name |-> func_name, array |-> array,
     next |-> next]

\* funcs: the branch definitions, name -> state document, in order.
Parallel(name, funcs, next) ==
    [kind |-> "parallel", name |-> name, funcs |-> funcs, next |-> next]

\* A state of a class the generator has no encoder for.
Repeat(name) == [kind |-> "repeat", name |-> name]

STATE_TYPES == {"task", "switch", "map"}

\* payload.get(k)
Get(payload, k) == IF k \in DOMAIN payload THEN payload[k] ELSE None

Task_deserialize(name, payload) ==
    IF "func_name" \notin DOMAIN payload THEN Raise("KeyError")
    ELSE Ok(Task(name, payload["func_name"], Get(payload, "next")))

Switch_deserialize(name, payload) ==
    IF {"cases", "default"} \subseteq DOMAIN payload
    THEN Ok(Switch(name,
                   [i \in DOMAIN payload["cases"] |->
                       LET c == payload["cases"][i] IN Case(c.var, c.op, c.val, c.next)],
                   payload["default"]))
    ELSE Raise("KeyError")

Map_deserialize(name, payload) ==
    IF {"func_name", "array"} \subseteq DOMAIN payload
    THEN Ok(Map(name, payload["func_name"], payload["array"], Get(payload, "next"),
                IF "common_params" \in DOMAIN payload THEN payload["common_params"]
                ELSE <<>>))
    ELSE Raise("KeyError")

\* Mutant of State_deserialize: a state of an unknown type is read as a Task.
State_deserialize_lenient(name, payload) ==
    IF payload["type"] = "switch" THEN Switch_deserialize(name, payload)
    ELSE IF payload["type"] = "map" THEN Map_deserialize(name, payload)
    ELSE Task_deserialize(name, payload)

State_deserialize(name, payload) ==
    IF payload["type"] \notin STATE_TYPES THEN Raise("KeyError")
    ELSE IF payload["type"] = "task" THEN Task_deserialize(name, payload)
    ELSE IF payload["type"] = "switch" THEN Switch_deserialize(name, payload)
    ELSE Map_deserialize(name, payload)

\* {n: State.deserialize(n, s) for n, s in items}: the first failure raises.
DeserializeAll(items) ==
    LET res == [i \in DOMAIN items |-> State_deserialize(items[i].name, items[i].doc)]
        bad == {i \in DOMAIN items : ~res[i].ok}
    IN  IF bad # {} THEN Raise(res[CHOOSE i \in bad : \A j \in bad : i <= j].err)
        ELSE Ok([i \in DOMAIN items |-> res[i].val])

-----------------------------------------------------------------------------
(* sebs/aws/generator.py: the encoders *)

\* The values str(uuid.uuid4())[:8] can take.
UUIDS == {"0a1b2c3d", "4e5f6a7b"}

\* The uuid4() draws the encoding of a state makes: one for a Map, two for a
\* Loop, one per Map branch of a Parallel (held at the branch's position).
DrawSlots(state) ==
    IF state.kind = "map" THEN {1}
    ELSE IF state.kind = "loop" THEN {1, 2}
    ELSE IF state.kind = "parallel"
         THEN {i \in DOMAIN state.funcs : state.funcs[i].doc["type"] = "map"}
    ELSE {}

\* Mutant of WithNext: the terminal marker is set in any case.
WithNext_always_end(payload, next) ==
    IF Truthy(next) THEN DictPut(DictPut(payload, "Next", next), "End", TRUE)
    ELSE DictPut(payload, "End", TRUE)

\* if state.next: payload["Next"] = state.next  else: payload["End"] = True
WithNext(payload, next) ==
    IF Truthy(next) THEN DictPut(payload, "Next", next) ELSE DictPut(payload, "End", TRUE)

\* Mutant of encode_task: an unresolved function name yields no resource
\* instead of raising.
encode_task_unchecked(state) ==
    Ok(WithNext(
        [Name |-> state.name,
         Type |-> "Task",
         Resource |-> IF state.func_name \in DOMAIN func_arns
                      THEN func_arns[state.func_name] ELSE None,
         Parameters |-> ("request_id.$" :> "$.request_id") @@ ("payload.$" :> "$.payload"),
         ResultPath |-> "$.payload"],
        state.next))

\* Mutant of encode_task: the output replaces the whole envelope.
encode_task_whole_result(state) ==
    IF state.func_name \notin DOMAIN func_arns THEN Raise("KeyError")
    ELSE Ok(WithNext(
            [Name |-> state.name,
             Type |-> "Task",
             Resource |-> func_arns[state.func_name],
             Parameters |-> ("request_id.$" :> "$.request_id") @@ ("payload.$" :> "$.payload"),
             ResultPath |-> "$"],
            state.next))

encode_task(state) ==
    IF state.func_name \notin DOMAIN func_arns THEN Raise("KeyError")
    ELSE Ok(WithNext(
            [Name |-> state.name,
             Type |-> "Task",
             Resource |-> func_arns[state.func_name],
             Parameters |-> ("request_id.$" :> "$.request_id") @@ ("payload.$" :> "$.payload"),
             ResultPath |-> "$.payload"],
            state.next))

comp == ("<" :> "LessThan") @@ ("<=" :> "LessThanEquals") @@ ("==" :> "Equals")
        @@ (">=" :> "GreaterThanEquals") @@ (">" :> "GreaterThan")

\* Mutant of encode_case: every literal is compared as a string.
encode_case_string_only(case) ==
    IF case.op \notin DOMAIN comp THEN Raise("KeyError")
    ELSE Ok(("Variable" :> ("$.payload" \o case.var))
            @@ (("String" \o comp[case.op]) :> case.val)
            @@ ("Next" :> case.next))

encode_case(case) ==
    LET type == IF case.val.t = "num" THEN "Numeric" ELSE "String" IN
    IF case.op \notin DOMAIN comp THEN Raise("KeyError")
    ELSE Ok(("Variable" :> ("$.payload" \o case.var))
            @@ ((type \o comp[case.op]) :> case.val)
            @@ ("Next" :> case.next))

\* Mutant of encode_switch: the choices are emitted in reverse order.
encode_switch_reversed(state) ==
    LET choises == [i \in DOMAIN state.cases |->
                       encode_case(state.cases[Len(state.cases) + 1 - i])]
        bad == {i \in DOMAIN choises : ~choises[i].ok}
    IN  IF bad # {} THEN Raise("KeyError")
        ELSE Ok([Name |-> state.name,
                 Type |-> "Choice",
                 Choices |-> [i \in DOMAIN choises |-> choises[i].val],
                 Default |-> state.default])

encode_switch(state) ==
    LET choises == [i \in DOMAIN state.cases |-> encode_case(state.cases[i])]
        bad == {i \in DOMAIN choises : ~choises[i].ok}
    IN  IF bad # {} THEN Raise("KeyError")
        ELSE Ok([Name |-> state.name,
                 Type |-> "Choice",
                 Choices |-> [i \in DOMAIN choises |-> choises[i].val],
                 Default |-> state.default])

\* Mutant of ParamEntries: the parameters are read from the envelope, not
\* from its payload.
RECURSIVE ParamEntries_from_envelope(_)
ParamEntries_from_envelope(params) ==
    IF params = <<>> THEN ("array_element.$" :> "$$.Map.Item.Value")
    ELSE DictPut(ParamEntries_from_envelope(SubSeq(params, 1, Len(params) - 1)),
                 params[Len(params)] \o ".$",
                 "$." \o params[Len(params)])

\* entries of the reshaped payload, one per segment of common_params.
RECURSIVE ParamEntries(_)
ParamEntries(params) ==
    IF params = <<>> THEN ("array_element.$" :> "$$.Map.Item.Value")
    ELSE DictPut(ParamEntries(SubSeq(params, 1, Len(params) - 1)),
                 params[Len(params)] \o ".$",
                 "$.payload." \o params[Len(params)])

\* Mutant of encode_map: the generated name also reaches the Comment field.
encode_map_leaky(state, rnd) ==
    IF state.func_name \in DOMAIN func_arns
    THEN Ok(WithNext(
            [Name |-> state.name,
             Type |-> "Map",
             Comment |-> "func_" \o rnd[1],
             ItemsPath |-> "$.payload." \o state.array,
             Parameters |-> ("request_id.$" :> "$.request_id")
                            @@ ("payload.$" :> "$$.Map.Item.Value"),
             Iterator |-> [StartAt |-> "func_" \o rnd[1]],
             ResultPath |-> "$.payload." \o state.array],
            state.next))
    ELSE Raise("KeyError")

encode_map(state, rnd) ==
    LET map_func_name == "func_" \o rnd[1] IN
    IF state.func_name \notin DOMAIN func_arns THEN Raise("KeyError")
    ELSE Ok(WithNext(
            [Name |-> state.name,
             Type |-> "Map",
             ItemsPath |-> "$.payload." \o state.array,
             Parameters |->
                 IF state.common_params # <<>>
                 THEN ("request_id.$" :> "$.request_id")
                      @@ ("payload" :> ParamEntries(state.common_params))
                 ELSE ("request_id.$" :> "$.request_id")
                      @@ ("payload.$" :> "$$.Map.Item.Value"),
             Iterator |->
                 [StartAt |-> map_func_name,
                  States |-> (map_func_name :>
                                 [Type |-> "Task",
                                  Resource |-> func_arns[state.func_name],
                                  End |-> TRUE])],
             ResultPath |-> "$.payload." \o state.array],
            state.next))

\* Mutant of encode_loop: the iteration results stay where encode_map
\* writes them.
encode_loop_keeps_results(state, rnd) ==
    LET map_state == Map(state.name, state.func_name, state.array, state.next, <<>>)
        payload == encode_map(map_state, rnd)
    IN  IF ~payload.ok THEN payload
        ELSE Ok(DictPut(DictPut(payload.val,
                    "MaxConcurrency", 1),
                    "ResultSelector", <<>>))

encode_loop(state, rnd) ==
    LET map_state == Map(state.name, state.func_name, state.array, state.next, <<>>)
        payload == encode_map(map_state, rnd)
    IN  IF ~payload.ok THEN payload
        ELSE Ok(DictPut(DictPut(DictPut(payload.val,
                    "MaxConcurrency", 1),
                    "ResultSelector", <<>>),
                    "ResultPath", "$." \o rnd[2]))

\* The first exception a list comprehension over results raises, if any.
FirstError(res) ==
    LET bad == {i \in DOMAIN res : ~res[i].ok} IN
    IF bad = {} THEN None ELSE res[CHOOSE i \in bad : \A j \in bad : i <= j].err

RECURSIVE encode_state(_, _)

\* Mutant of encode_parallel: the request id is taken from the second branch.
encode_parallel_second_id(state, rnd) ==
    LET sts == DeserializeAll(state.funcs) IN
    IF ~sts.ok THEN sts
    ELSE
    LET enc == [i \in DOMAIN sts.val |->
                   encode_state(sts.val[i], IF i \in DOMAIN rnd THEN <<rnd[i]>> ELSE <<>>)]
    IN
    IF FirstError(enc) # None THEN Raise(FirstError(enc))
    ELSE
    LET parallel_funcs ==
            [i \in DOMAIN enc |->
                DictPut(enc[i].val, "ResultPath", "$." \o enc[i].val["Name"])]
    IN  IF Len(parallel_funcs) < 2 THEN Raise("IndexError")
        ELSE Ok(WithNext(
                [Name |-> state.name,
                 Type |-> "Parallel",
                 Branches |->
                     << [StartAt |-> parallel_funcs[1]["Name"],
                         States |-> << parallel_funcs[1] >>],
                        [StartAt |-> parallel_funcs[2]["Name"],
                         States |-> << parallel_funcs[2] >>] >>,
                 ResultSelector |->
                     ("payload" :>
                         (((parallel_funcs[1]["Name"] \o ".$") :>
                              ("$[0]." \o parallel_funcs[1]["Name"]))
                          @@ ((parallel_funcs[2]["Name"] \o ".$") :>
                              ("$[1]." \o parallel_funcs[2]["Name"]))))
                     @@ ("request_id.$" :> "$[1].request_id")],
                state.next))

encode_parallel(state, rnd) ==
    LET sts == DeserializeAll(state.funcs) IN
    IF ~sts.ok THEN sts
    ELSE
    LET enc == [i \in DOMAIN sts.val |->
                   encode_state(sts.val[i], IF i \in DOMAIN rnd THEN <<rnd[i]>> ELSE <<>>)]
    IN
    IF FirstError(enc) # None THEN Raise(FirstError(enc))
    ELSE
    LET parallel_funcs ==
            [i \in DOMAIN enc |->
                DictPut(enc[i].val, "ResultPath", "$." \o enc[i].val["Name"])]
    IN  IF Len(parallel_funcs) < 2 THEN Raise("IndexError")
        ELSE Ok(WithNext(
                [Name |-> state.name,
                 Type |-> "Parallel",
                 Branches |->
                     << [StartAt |-> parallel_funcs[1]["Name"],
                         States |-> << parallel_funcs[1] >>],
                        [StartAt |-> parallel_funcs[2]["Name"],
                         States |-> << parallel_funcs[2] >>] >>,
                 ResultSelector |->
                     ("payload" :>
                         (((parallel_funcs[1]["Name"] \o ".$") :>
                              ("$[0]." \o parallel_funcs[1]["Name"]))
                          @@ ((parallel_funcs[2]["Name"] \o ".$") :>
                              ("$[1]." \o parallel_funcs[2]["Name"]))))
                     @@ ("request_id.$" :> "$[0].request_id")],
                state.next))

\* The dispatch for the Loop and Parallel classes that generator.py imports
\* from sebs.faas.fsm; any other class has no encoder.
encode_state_other(state, rnd) ==
    IF state.kind = "loop" THEN encode_loop(state, rnd)
    ELSE IF state.kind = "parallel" THEN encode_parallel(state, rnd)
    ELSE Raise("ValueError")

encode_state(state, rnd) ==
    IF state.kind = "task" THEN encode_task(state)
    ELSE IF state.kind = "switch" THEN encode_switch(state)
    ELSE IF state.kind = "map" THEN encode_map(state, rnd)
    ELSE encode_state_other(state, rnd)

\* Mutant of list2dict: the key stays in the items.
list2dict_keeps_key(lst, key) ==
    LET keys == {lst[i][key] : i \in DOMAIN lst}
        last(k) == CHOOSE i \in DOMAIN lst :
                      /\ lst[i][key] = k
                      /\ \A j \in DOMAIN lst : lst[j][key] = k => j <= i
    IN  [k \in keys |-> lst[last(k)]]

\* list2dict(lst, key): later items replace earlier ones of the same key.
list2dict(lst, key) ==
    LET keys == {lst[i][key] : i \in DOMAIN lst}
        last(k) == CHOOSE i \in DOMAIN lst :
                      /\ lst[i][key] = k
                      /\ \A j \in DOMAIN lst : lst[j][key] = k => j <= i
    IN  [k \in keys |-> DictDel(lst[last(k)], key)]

postprocess(pls) ==
    LET state_payloads == list2dict(pls, "Name")
        fix(p) ==
            IF "Branches" \in DOMAIN p
            THEN DictPut(p, "Branches",
                         [b \in DOMAIN p["Branches"] |->
                             DictPut(p["Branches"][b], "States",
                                     list2dict(p["Branches"][b]["States"], "Name"))])
            ELSE p
    IN  IF root = None THEN Raise("AttributeError")
        ELSE Ok([Comment |-> "SeBS auto-generated benchmark",
                 StartAt |-> root,
                 States |-> [n \in DOMAIN state_payloads |-> fix(state_payloads[n])]])

\* json.dumps(definition): the text of the document, held as the document.
export_func(definition) == [json |-> definition]

-----------------------------------------------------------------------------
(* Inputs: definition documents and programmatically built graphs *)

TaskDoc(func_name, next) ==
    IF next = None THEN [type |-> "task", func_name |-> func_name]
    ELSE [type |-> "task", func_name |-> func_name, next |-> next]

SwitchDoc(cases, default) == [type |-> "switch", cases |-> cases, default |-> default]

MapDoc(func_name, array, params, next) ==
    LET base == IF next = None
                THEN [type |-> "map", func_name |-> func_name, array |-> array]
                ELSE [type |-> "map", func_name |-> func_name, array |-> array,
                      next |-> next]
    IN  IF params = <<>> THEN base ELSE DictPut(base, "common_params", params)

\* The state documents a definition file is drawn from.  "h" is a function
\* name that only some resolution maps hold, "C" and "Z" name no state of a
\* two-state graph, and "loop" is a type tag parse() does not know.
DocPool ==
    { TaskDoc("f", None),
      TaskDoc("f", "B"),
      TaskDoc("h", "A"),
      SwitchDoc(<<Case(".x", "<", Num(5), "A"), Case(".x", "==", Num(5), "B")>>, "C"),
      SwitchDoc(<<Case(".x", "<=", Num(5), "B"), Case(".y", "==", Str("s"), "A")>>, "A"),
      SwitchDoc(<<Case(".x", "!=", Num(5), "A")>>, "A"),
      MapDoc("f", "arr", <<>>, None),
      MapDoc("f", "arr", <<"x", "y">>, "B"),
      [type |-> "loop", func_name |-> "f", array |-> "arr"] }

\* The orders in which a definition declares its states.
NameOrders == { <<"A", "B", "C", "D">>, <<"B", "A", "C", "D">> }

Definitions ==
    UNION { { [root |-> r,
               states |-> [i \in 1..n |-> [name |-> order[i], doc |-> ds[i]]]] :
                 r \in {"A", "Z"}, order \in NameOrders, ds \in [1..n -> DocPool] } :
            n \in 0..MaxStates }

BranchNames == <<"X", "Y", "Z", "W", "V">>

\* Branch definitions of a Parallel: k task branches, the last of them
\* optionally a Map or a task of the function "h".
Funcs(k, lastDoc) ==
    [i \in 1..k |-> [name |-> BranchNames[i],
                     doc |-> IF i = k THEN lastDoc ELSE TaskDoc("f", None)]]

\* The states of the classes no definition file yields.
SpecialPool(name) ==
    { Loop(name, "f", "arr", None),
      Loop(name, "h", "arr", "A"),
      Repeat(name) }
    \cup { Parallel(name, Funcs(k, TaskDoc("f", None)), None) : k \in 0..MaxBranches }
    \cup { Parallel(name, Funcs(2, d), "A") :
             d \in {TaskDoc("h", None), MapDoc("f", "arr", <<>>, None)} }

\* The graphs built in code: one state of SpecialPool among tasks.
BuiltGraphs ==
    LET order == <<"A", "B", "C", "D">> IN
    UNION { UNION { { [i \in 1..n |-> IF i = p THEN s ELSE Task(order[i], "f", nx)] :
                        s \in SpecialPool(order[p]), nx \in {None, "A"} } :
                    p \in 1..n } :
            n \in 1..MaxStates }

FuncArns == { ("f" :> "arn:f"), ("f" :> "arn:f") @@ ("h" :> "arn:h") }

-----------------------------------------------------------------------------
(* The generator as a state machine *)

GenInit ==
    /\ func_arns \in FuncArns
    /\ loaded = "no"
    /\ perr = None
    /\ states = <<>>
    /\ root = None
    /\ gpc = "idle"
    /\ idx = 0
    /\ payloads = <<>>
    /\ docs = <<>>
    /\ exports = 0
    /\ inv = <<>>
    /\ file = <<>>
    /\ trigger = <<>>
    /\ cached = <<>>
    /\ restored = <<>>
    /\ provisioned = <<>>
    /\ args = <<>>
    /\ SysIdle
    /\ PubIdle
    /\ WrapIdle

\* Generator.parse(path) on a file that holds the given definition: the
\* exception raised, if any, and the attributes assigned before it.
parse(definition) ==
    LET sts == DeserializeAll(definition.states) IN
    IF ~sts.ok
    THEN [err |-> sts.err, assigned |-> {}, states |-> <<>>, root |-> None]
    ELSE IF \E i \in DOMAIN sts.val : sts.val[i].name = definition.root
         THEN [err |-> None, assigned |-> {"states", "root"}, states |-> sts.val,
               root |-> definition.root]
         ELSE [err |-> "KeyError", assigned |-> {"states"}, states |-> sts.val,
               root |-> None]

ParseDef(definition) ==
    /\ gpc = "idle" /\ loaded = "no" /\ perr = None
    /\ LET r == parse(definition) IN
       /\ perr' = r.err
       /\ IF "states" \in r.assigned
          THEN states' = r.states /\ docs' = <<>>
          ELSE UNCHANGED <<states, docs>>
       /\ IF "root" \in r.assigned THEN root' = r.root ELSE UNCHANGED root
       /\ loaded' = IF "root" \in r.assigned THEN "yes"
                    ELSE IF "states" \in r.assigned THEN "statesOnly"
                    ELSE loaded
    /\ UNCHANGED <<func_arns, gpc, idx, payloads, exports>>
    /\ UNCHANGED <<tvars, svars, xvars>>

\* Generator.parse on a definition document.
Parse ==
    /\ gpc = "idle" /\ loaded = "no" /\ perr = None
    /\ \E definition \in Definitions : ParseDef(definition)

\* A graph built in code: states and root assigned directly.
Build ==
    /\ gpc = "idle" /\ loaded = "no" /\ perr = None
    /\ \E g \in BuiltGraphs :
         /\ states' = g
         /\ root' = g[1].name
    /\ loaded' = "yes"
    /\ docs' = <<>>
    /\ UNCHANGED <<func_arns, perr, gpc, idx, payloads, exports>>
    /\ UNCHANGED <<tvars, svars, xvars>>

\* generate(), line 84: the list of states is taken.
GenStart ==
    /\ gpc = "idle" /\ Len(docs) < MaxRuns
    /\ IF loaded = "no"
       THEN /\ docs' = Append(docs, Raise("AttributeError"))
            /\ UNCHANGED gpc
       ELSE /\ gpc' = "loop"
            /\ UNCHANGED docs
    /\ idx' = 0
    /\ payloads' = <<>>
    /\ UNCHANGED <<func_arns, loaded, perr, states, root, exports>>
    /\ UNCHANGED <<tvars, svars, xvars>>

\* generate(), lines 86-93: one iteration of the loop over the states.
GenStep ==
    /\ gpc = "loop" /\ idx < Len(states)
    /\ \E rnd \in [DrawSlots(states[idx + 1]) -> UUIDS] :
         LET obj == encode_state(states[idx + 1], rnd) IN
         IF obj.ok
         THEN /\ payloads' = Append(payloads, obj.val)
              /\ idx' = idx + 1
              /\ UNCHANGED <<gpc, docs>>
         ELSE /\ docs' = Append(docs, obj)
              /\ gpc' = "idle"
              /\ idx' = 0
              /\ payloads' = <<>>
    /\ UNCHANGED <<func_arns, loaded, perr, states, root, exports>>
    /\ UNCHANGED <<tvars, svars, xvars>>

\* generate(), lines 95-97: postprocess and export.
GenFinish ==
    /\ gpc = "loop" /\ idx = Len(states)
    /\ LET definition == postprocess(payloads) IN
       IF definition.ok
       THEN /\ docs' = Append(docs, Ok(export_func(definition.val)))
            /\ exports' = exports + 1
       ELSE /\ docs' = Append(docs, definition)
            /\ UNCHANGED exports
    /\ gpc' = "idle"
    /\ idx' = 0
    /\ payloads' = <<>>
    /\ UNCHANGED <<func_arns, loaded, perr, states, root>>
    /\ UNCHANGED <<tvars, svars, xvars>>

GenNext == Parse \/ Build \/ GenStart \/ GenStep \/ GenFinish

SpecGen == GenInit /\ [][GenNext]_vars

-----------------------------------------------------------------------------
(* Properties of the generator *)

\* The documents of the completed generate() calls that returned.
Returned == {i \in DOMAIN docs : docs[i].ok}

Doc(i) == docs[i].val.json

StatesOfKind(k) == {i \in DOMAIN states : states[i].kind = k}

\* Whether encoding the state draws from uuid4().
UsesUuid(state) ==
    \/ state.kind \in {"map", "loop"}
    \/ state.kind = "parallel" /\ \E i \in DOMAIN state.funcs : state.funcs[i].doc["type"] = "map"

\* A fragment without its uuid-derived fields.
StripUuid(frag) == [k \in DOMAIN frag \ {"Iterator", "ResultPath"} |-> frag[k]]

StripUuidDeep(frag) ==
    IF "Branches" \in DOMAIN frag
    THEN DictPut(StripUuid(frag), "Branches",
                 [b \in DOMAIN frag["Branches"] |->
                     [StartAt |-> frag["Branches"][b]["StartAt"],
                      States |-> [n \in DOMAIN frag["Branches"][b]["States"] |->
                                     StripUuid(frag["Branches"][b]["States"][n])]]])
    ELSE StripUuid(frag)

TestInputs ==
    { (".x" :> Num(x)) @@ (".y" :> Str(y)) : x \in {3, 5, 9}, y \in {"s", "t"} }

\* a op b on two values of the same type.
Compare(op, a, b) ==
    /\ a.t = b.t
    /\ IF a.t = "num"
       THEN \/ op = "<" /\ a.n < b.n
            \/ op = "<=" /\ a.n <= b.n
            \/ op = "==" /\ a.n = b.n
            \/ op = ">=" /\ a.n >= b.n
            \/ op = ">" /\ a.n > b.n
       ELSE op = "==" /\ a.s = b.s

\* The target a Switch routes the input to: the first case that holds.
SwitchRoute(state, input) ==
    LET hit == {i \in DOMAIN state.cases :
                   Compare(state.cases[i].op, input[state.cases[i].var], state.cases[i].val)}
    IN  IF hit = {} THEN state.default
        ELSE state.cases[CHOOSE i \in hit : \A j \in hit : i <= j].next

\* Whether a choice rule of the wire document holds on the input.
ChoiceHolds(choice, input) ==
    \E ty \in {"Numeric", "String"}, op \in DOMAIN comp, v \in DOMAIN input :
        /\ (ty \o comp[op]) \in DOMAIN choice
        /\ choice["Variable"] = "$.payload" \o v
        /\ input[v].t = (IF ty = "Numeric" THEN "num" ELSE "str")
        /\ Compare(op, input[v], choice[ty \o comp[op]])

\* First-match evaluation of a Choice fragment.
ChoiceRoute(frag, input) ==
    LET hit == {i \in DOMAIN frag["Choices"] : ChoiceHolds(frag["Choices"][i], input)}
    IN  IF hit = {} THEN frag["Default"]
        ELSE frag["Choices"][CHOOSE i \in hit : \A j \in hit : i <= j]["Next"]

\* C2: in every generated document the Choice fragment of a Switch has one
\* choice per case, in order, with the case's target, and the switch's
\* default; first-match evaluation routes as the Switch does.
C2_SwitchRouting ==
    \A d \in Returned : \A k \in StatesOfKind("switch") :
        LET st == states[k]
            frag == Doc(d)["States"][st.name]
        IN  /\ frag["Type"] = "Choice"
            /\ Len(frag["Choices"]) = Len(st.cases)
            /\ \A i \in DOMAIN st.cases : frag["Choices"][i]["Next"] = st.cases[i].next
            /\ frag["Default"] = st.default
            /\ \A input \in TestInputs : ChoiceRoute(frag, input) = SwitchRoute(st, input)

C2_Witness ==
    \E d \in Returned : \E k \in StatesOfKind("switch") :
        LET st == states[k]
            frag == Doc(d)["States"][st.name]
            in(x) == (".x" :> Num(x)) @@ (".y" :> Str("t"))
        IN  /\ st.cases = <<Case(".x", "<", Num(5), "A"), Case(".x", "==", Num(5), "B")>>
            /\ st.default = "C"
            /\ ChoiceRoute(frag, in(3)) = "A"
            /\ ChoiceRoute(frag, in(5)) = "B"
            /\ ChoiceRoute(frag, in(9)) = "C"

\* A Task, top-level or a Parallel branch, whose function is not resolved.
UnresolvedTask(state) ==
    \/ state.kind = "task" /\ state.func_name \notin DOMAIN func_arns
    \/ /\ state.kind = "parallel"
       /\ \E i \in DOMAIN state.funcs :
             /\ state.funcs[i].doc["type"] = "task"
             /\ state.funcs[i].doc["func_name"] \notin DOMAIN func_arns

\* C3: with an unresolved Task in the graph every generate() call raises,
\* returns no document and never calls the export function.
C3_UnresolvedTaskFails ==
    (\E k \in DOMAIN states : UnresolvedTask(states[k])) =>
        /\ \A i \in DOMAIN docs : ~docs[i].ok /\ DOMAIN docs[i] = {"ok", "err"}
        /\ exports = 0

C3_Witness ==
    /\ Len(states) = 2
    /\ states[1].kind = "task" /\ ~UnresolvedTask(states[1])
    /\ states[2].kind = "task" /\ UnresolvedTask(states[2])
    /\ root # None
    /\ Len(docs) = 2 /\ docs[1] = Raise("KeyError") /\ docs[2] = Raise("KeyError")

\* C4 as stated: a Parallel state with a branch count other than two makes
\* every generate() call fail.
C4_ParallelExactlyTwo ==
    (\E k \in StatesOfKind("parallel") : Len(states[k].funcs) # 2) => Returned = {}

\* The names a state refers to as successor, case target or default.
Refs(state) ==
    IF state.kind = "switch"
    THEN {state.cases[i].next : i \in DOMAIN state.cases} \cup {state.default}
    ELSE IF state.kind \in {"task", "map"} /\ Truthy(state.next) THEN {state.next}
    ELSE {}

Dangling ==
    \E k \in DOMAIN states : \E r \in Refs(states[k]) :
        \A i \in DOMAIN states : states[i].name # r

\* C5 as stated: a parsed definition with a dangling reference makes every
\* generate() call fail.
C5_DanglingRejected == (loaded = "yes" /\ Dangling) => Returned = {}

\* Execution of the wire document.  The fragments are run as a state machine
\* service runs them: Parameters and ResultSelector build a value from
\* reference paths, ResultPath places the result in the state's input.

\* The keys of the envelopes, payloads and selectors of the documents.
Keys == {"request_id", "payload", "array_element", "arr", "x", "y",
         "X", "Y", "Z", "W", "V"}

\* The envelope a workflow is started with.
Envelope(request_id) ==
    ("request_id" :> request_id)
    @@ ("payload" :> (("arr" :> <<"e1", "e2">>) @@ ("x" :> "vx") @@ ("y" :> "vy")))

TestEnvelopes == {Envelope(r) : r \in {"r1", "r2"}}

\* What the function of a resource returns on an input.
Invoke(resource, input) == [fn |-> resource, input |-> input]

\* The paths and the template keys that refer to a key.
TopPath == [k \in Keys \cup UUIDS |-> "$." \o k]
PayloadPath == [f \in Keys |-> "$.payload." \o f]
RefKey == [n \in Keys |-> n \o ".$"]

\* The value a reference path selects: item is the current Map item.
ResolvePath(path, input, item) ==
    IF path = "$$.Map.Item.Value" THEN item
    ELSE IF path = "$" THEN input
    ELSE IF \E k \in DOMAIN input \cap Keys : path = TopPath[k]
         THEN input[CHOOSE k \in DOMAIN input \cap Keys : path = TopPath[k]]
    ELSE IF /\ "payload" \in DOMAIN input
            /\ \E f \in DOMAIN input["payload"] \cap Keys : path = PayloadPath[f]
         THEN input["payload"][CHOOSE f \in DOMAIN input["payload"] \cap Keys :
                                  path = PayloadPath[f]]
    ELSE "<States.Runtime>"

\* The keys of the value a template builds: "k.$" yields k.
OutKeys(tmpl) ==
    {n \in Keys : RefKey[n] \in DOMAIN tmpl} \cup (DOMAIN tmpl \cap Keys)

\* A template whose entries are all reference paths or literals.
ApplyFlat(tmpl, input, item) ==
    [n \in OutKeys(tmpl) |->
        IF RefKey[n] \in DOMAIN tmpl THEN ResolvePath(tmpl[RefKey[n]], input, item)
        ELSE tmpl[n]]

\* Parameters: an entry that is no reference path is a nested template.
ApplyParameters(tmpl, input, item) ==
    [n \in OutKeys(tmpl) |->
        IF RefKey[n] \in DOMAIN tmpl THEN ResolvePath(tmpl[RefKey[n]], input, item)
        ELSE ApplyFlat(tmpl[n], input, item)]

\* ResultPath: where the result goes in the state's input.
ApplyResultPath(input, path, result) ==
    IF path = "$" THEN result
    ELSE IF \E f \in Keys : path = PayloadPath[f]
         THEN DictPut(input, "payload",
                      DictPut(input["payload"],
                              CHOOSE f \in Keys : path = PayloadPath[f], result))
    ELSE LET k == CHOOSE k \in Keys \cup UUIDS : path = TopPath[k] IN
         DictPut(input, k, result)

\* The input of the Map iteration for one item.
IterationInput(frag, input, item) == ApplyParameters(frag["Parameters"], input, item)

\* The output of a Map fragment on an input.
ExecMap(frag, input) ==
    LET items == ResolvePath(frag["ItemsPath"], input, None)
        inner == frag["Iterator"]["States"][frag["Iterator"]["StartAt"]]
        results == [i \in DOMAIN items |->
                       Invoke(inner["Resource"], IterationInput(frag, input, items[i]))]
        selected == IF "ResultSelector" \in DOMAIN frag
                    THEN ApplyFlat(frag["ResultSelector"], results, None)
                    ELSE results
    IN  ApplyResultPath(input, frag["ResultPath"], selected)

\* The document the latest generate() call returned, if it returned one;
\* every document is the latest one in the state its call returns in.
Latest == {d \in Returned : d = Len(docs)}

\* The payload an iteration of the Map state is to receive for an item.
ShapedPayload(state, input, item) ==
    IF state.common_params = <<>> THEN item
    ELSE [n \in {"array_element"} \cup {state.common_params[i] :
                                           i \in DOMAIN state.common_params} |->
             IF n = "array_element" THEN item ELSE input["payload"][n]]

C17_LoopDiscardsResults ==
    \A d \in Latest : \A k \in StatesOfKind("loop") :
        LET st == states[k]
            frag == Doc(d)["States"][st.name]
        IN  /\ "MaxConcurrency" \in DOMAIN frag /\ frag["MaxConcurrency"] = 1
            /\ "ResultSelector" \in DOMAIN frag /\ DOMAIN frag["ResultSelector"] = {}
            /\ frag["ResultPath"] # "$.payload." \o st.array
            /\ \E u \in UUIDS : frag["ResultPath"] = "$." \o u
            /\ \A input \in TestEnvelopes :
                 LET out == ExecMap(frag, input) IN
                 /\ out["payload"] = input["payload"]
                 /\ out["request_id"] = input["request_id"]

\* A document with a Loop has been generated.
C17_Witness ==
    \E d \in Returned : \E k \in StatesOfKind("loop") :
        LET frag == Doc(d)["States"][states[k].name] IN
        /\ frag["MaxConcurrency"] = 1
        /\ ExecMap(frag, Envelope("r1"))["payload"] = Envelope("r1")["payload"]

\* The output of a Task fragment on an input.
ExecTask(frag, input) ==
    LET arg == IF "Parameters" \in DOMAIN frag
               THEN ApplyParameters(frag["Parameters"], input, None) ELSE input
    IN  ApplyResultPath(input, IF "ResultPath" \in DOMAIN frag THEN frag["ResultPath"]
                               ELSE "$",
                        Invoke(frag["Resource"], arg))

\* The output of the only state of a Parallel branch on an input.
ExecBranch(branch, input) ==
    LET frag == branch["States"][branch["StartAt"]] IN
    IF frag["Type"] = "Map" THEN ExecMap(frag, input) ELSE ExecTask(frag, input)

Digits == <<"0", "1", "2", "3", "4">>

\* The value a path $[i].k selects from the outputs of the branches.
ResolveIndexed(path, results) ==
    LET hits == {<<i, k>> \in (DOMAIN results) \X Keys :
                    /\ k \in DOMAIN results[i]
                    /\ path = "$[" \o Digits[i] \o "]." \o k}
    IN  IF hits = {} THEN "<States.Runtime>"
        ELSE LET h == CHOOSE h \in hits : TRUE IN results[h[1]][h[2]]

\* The ResultSelector of a Parallel fragment on the outputs of its branches.
SelectParallel(frag, results) ==
    LET sel == frag["ResultSelector"]
        flat(t) == [n \in OutKeys(t) |-> ResolveIndexed(t[RefKey[n]], results)]
    IN  [n \in OutKeys(sel) |->
            IF RefKey[n] \in DOMAIN sel THEN ResolveIndexed(sel[RefKey[n]], results)
            ELSE flat(sel[n])]

\* The output of a Parallel fragment on an input.
ExecParallel(frag, input) ==
    SelectParallel(frag, [b \in DOMAIN frag["Branches"] |->
                             ExecBranch(frag["Branches"][b], input)])

\* Branch outputs that differ in their request ids.
BranchOutputs(a, b) ==
    << ("request_id" :> "ra") @@ ("payload" :> "p") @@ (a :> "oa"),
       ("request_id" :> "rb") @@ ("payload" :> "p") @@ (b :> "ob") >>

\* C18: the fragment of a Parallel with the branches A and B has two
\* branches of one state each, starting at A and at B; each branch writes
\* its output under its own name, the merged payload is {A: output of A,
\* B: output of B}, and the merged request id is that of branch A.
C18_ParallelMerge ==
    \A d \in Latest : \A k \in StatesOfKind("parallel") :
        LET st == states[k]
            frag == Doc(d)["States"][st.name]
            A == st.funcs[1].name
            B == st.funcs[2].name
        IN  Len(st.funcs) = 2 =>
            /\ Len(frag["Branches"]) = 2
            /\ frag["Branches"][1]["StartAt"] = A /\ frag["Branches"][2]["StartAt"] = B
            /\ DOMAIN frag["Branches"][1]["States"] = {A}
            /\ DOMAIN frag["Branches"][2]["States"] = {B}
            /\ LET merged == SelectParallel(frag, BranchOutputs(A, B)) IN
               /\ DOMAIN merged = {"payload", "request_id"}
               /\ merged["payload"] = ((A :> "oa") @@ (B :> "ob"))
               /\ merged["request_id"] = "ra"
            /\ \A input \in TestEnvelopes :
                 LET outA == ExecBranch(frag["Branches"][1], input)
                     outB == ExecBranch(frag["Branches"][2], input)
                     out == ExecParallel(frag, input)
                 IN  /\ A \in DOMAIN outA /\ B \in DOMAIN outB
                     /\ DOMAIN out = {"payload", "request_id"}
                     /\ DOMAIN out["payload"] = {A, B}
                     /\ out["payload"][A] = outA[A]
                     /\ out["payload"][B] = outB[B]
                     /\ out["request_id"] = input["request_id"]

\* A document with a Parallel of the two task branches X and Y has been
\* generated; its merged payload holds what the two functions return.
C18_Witness ==
    \E d \in Returned : \E k \in StatesOfKind("parallel") :
        LET st == states[k]
            frag == Doc(d)["States"][st.name]
            input == Envelope("r1")
        IN  /\ Len(st.funcs) = 2
            /\ st.funcs[1].name = "X" /\ st.funcs[2].name = "Y"
            /\ st.funcs[2].doc["type"] = "task"
            /\ ExecParallel(frag, input)["payload"]["X"] = Invoke("arn:f", input)
            /\ ExecParallel(frag, input)["request_id"] = "r1"

\* The Task steps of an execution from the named state: the input and the
\* output of each, for at most fuel steps.
RECURSIVE TaskTrace(_, _, _, _)
TaskTrace(doc, name, input, fuel) ==
    IF fuel = 0 \/ name \notin DOMAIN doc["States"] THEN <<>>
    ELSE LET frag == doc["States"][name] IN
         IF frag["Type"] # "Task" THEN <<>>
         ELSE LET after == ExecTask(frag, input) IN
              <<[name |-> name, before |-> input, after |-> after]>>
              \o (IF "Next" \in DOMAIN frag
                  THEN TaskTrace(doc, frag["Next"], after, fuel - 1) ELSE <<>>)

\* The state of the graph with the given name.
StateNamed(name) == states[CHOOSE k \in DOMAIN states : states[k].name = name]

\* C19: along a path of encoded Tasks every Task's function receives the
\* current request id and payload and nothing else, and the Task replaces
\* the payload by the function's output and leaves the rest of the envelope,
\* the request id of the workflow input in particular, as it was.
C19_TaskFrame ==
    \A d \in Latest : \A k \in StatesOfKind("task") : \A input \in TestEnvelopes :
        LET trace == TaskTrace(Doc(d), states[k].name, input, MaxChain) IN
        \A i \in DOMAIN trace :
            LET before == trace[i].before
                after == trace[i].after
                st == StateNamed(trace[i].name)
            IN  /\ DOMAIN after = {"request_id", "payload"}
                /\ after["request_id"] = input["request_id"]
                /\ after["payload"]
                      = Invoke(func_arns[st.func_name],
                               ("request_id" :> before["request_id"])
                               @@ ("payload" :> before["payload"]))

\* An execution has run through two Tasks, the second receiving the output
\* of the first as its payload.
C19_Witness ==
    \E d \in Returned : \E k \in StatesOfKind("task") :
        LET trace == TaskTrace(Doc(d), states[k].name, Envelope("r1"), MaxChain) IN
        /\ Len(trace) >= 2
        /\ trace[2].before["payload"] = trace[1].after["payload"]
        /\ trace[2].after["request_id"] = "r1"

\* Whether the fragment carries Next = next and no End when the state has a
\* successor, and End = true and no Next when it has none.
OneOfNextEnd(frag, next) ==
    IF Truthy(next)
    THEN "Next" \in DOMAIN frag /\ frag["Next"] = next /\ "End" \notin DOMAIN frag
    ELSE "End" \in DOMAIN frag /\ frag["End"] = TRUE /\ "Next" \notin DOMAIN frag

\* C20: every Task, Map, Loop and Parallel fragment of a generated document
\* carries exactly one of Next and End: Next, equal to the state's next,
\* when the state has a successor, and End = true when it has none.
C20_NextXorEnd ==
    \A d \in Latest : \A k \in DOMAIN states :
        states[k].kind \in {"task", "map", "loop", "parallel"} =>
            OneOfNextEnd(Doc(d)["States"][states[k].name], states[k].next)

\* A document with a Task that has a successor and a Loop that has none has
\* been generated.
C20_Witness ==
    \E d \in Returned : \E j, k \in DOMAIN states :
        /\ states[j].kind = "task" /\ Truthy(states[j].next)
        /\ states[k].kind = "loop" /\ ~Truthy(states[k].next)
        /\ "Next" \in DOMAIN Doc(d)["States"][states[j].name]
        /\ "End" \in DOMAIN Doc(d)["States"][states[k].name]

\* entry is the fragment frag filed under name: the fragment without its
\* Name, the States of each branch filed under their names in the same way.
FiledUnder(name, entry, frag) ==
    /\ "Name" \notin DOMAIN entry
    /\ frag["Name"] = name
    /\ DOMAIN entry = DOMAIN frag \ {"Name"}
    /\ \A k \in DOMAIN entry \ {"Branches"} : entry[k] = frag[k]
    /\ "Branches" \in DOMAIN entry =>
          /\ DOMAIN entry["Branches"] = DOMAIN frag["Branches"]
          /\ \A b \in DOMAIN frag["Branches"] :
                LET eb == entry["Branches"][b]
                    fb == frag["Branches"][b]
                IN  /\ eb["StartAt"] = fb["StartAt"]
                    /\ DOMAIN eb["States"] =
                          {fb["States"][k]["Name"] : k \in DOMAIN fb["States"]}
                    /\ \A k \in DOMAIN fb["States"] :
                          LET f == fb["States"][k]
                              en == eb["States"][f["Name"]]
                          IN  /\ "Name" \notin DOMAIN en
                              /\ DOMAIN en = DOMAIN f \ {"Name"}
                              /\ \A x \in DOMAIN en : en[x] = f[x]

BadDefinition(definition) ==
    \/ \E i \in DOMAIN definition.states :
          definition.states[i].doc["type"] \notin {"task", "switch", "map"}
    \/ \A i \in DOMAIN definition.states :
          definition.states[i].name # definition.root

ConditionKey(op, val) ==
    (IF val.t = "num" THEN "Numeric" ELSE "String")
    \o (CASE op = "<" -> "LessThan"
           [] op = "<=" -> "LessThanEquals"
           [] op = "==" -> "Equals"
           [] op = ">=" -> "GreaterThanEquals"
           [] op = ">" -> "GreaterThan")

FiveOps == {"<", "<=", "==", ">=", ">"}

\* C23: in a generated document the choice of every Switch case holds the
\* variable $.payload<var>, the case's successor, and the unchanged literal
\* under the key Numeric<Op> for a number and String<Op> for any other
\* literal; and no document is generated from a graph with a case whose
\* operator is not one of the five.
C23_CaseEncoding ==
    /\ \A d \in Latest : \A k \in StatesOfKind("switch") :
          LET choices == Doc(d)["States"][states[k].name]["Choices"] IN
          /\ Len(choices) = Len(states[k].cases)
          /\ \A i \in DOMAIN states[k].cases :
                LET case == states[k].cases[i] IN
                /\ case.op \in FiveOps
                /\ DOMAIN choices[i] = {"Variable", "Next", ConditionKey(case.op, case.val)}
                /\ choices[i]["Variable"] = "$.payload" \o case.var
                /\ choices[i]["Next"] = case.next
                /\ choices[i][ConditionKey(case.op, case.val)] = case.val
    /\ (\E k \in StatesOfKind("switch") : \E i \in DOMAIN states[k].cases :
            states[k].cases[i].op \notin FiveOps) => Returned = {}

\* A document has been generated from a Switch with a numeric and a string
\* case.
C23_Witness ==
    /\ Latest # {}
    /\ \E k \in StatesOfKind("switch") : \E i, j \in DOMAIN states[k].cases :
          states[k].cases[i].val.t = "num" /\ states[k].cases[j].val.t = "str"

\* generate() has raised on a graph with a case of the operator "!=".
C23_WitnessBadOp ==
    /\ Len(docs) >= 1 /\ docs[1] = Raise("KeyError")
    /\ \E k \in StatesOfKind("switch") : \E i \in DOMAIN states[k].cases :
          states[k].cases[i].op = "!="
    /\ \A k \in StatesOfKind("task") : states[k].func_name \in DOMAIN func_arns

-----------------------------------------------------------------------------
(* sebs/aws/triggers.py, sebs/azure/triggers.py: invocation *)

MaxPolls == 2       \* polls of one invocation that find nothing yet

QueuePollInterval == 5
WorkflowPollInterval == 10

\* Seconds a call of the platform (start_execution, receive_message) may take.
Latencies == {0, 1}

Slots == {1, 2}

Variants == {"AWS.FunctionLibrary", "AWS.WorkflowLibrary", "AWS.HTTP",
             "Azure.HTTP", "Azure.Queue", "Azure.Storage"}

Payloads == {"p1", "p2"}

\* What a call has produced: nothing yet, an ExecutionResult, a raised
\* exception, or (Lambda's Event invocation) the raw response.
NoOutcome ==
    [kind |-> "none", begin |-> 0, end |-> 0, request_id |-> None, failure |-> FALSE,
     report |-> FALSE, output |-> None, err |-> None]

\* ExecutionResult.from_times(begin, end)
from_times(begin, end) ==
    [kind |-> "result", begin |-> begin, end |-> end, request_id |-> None,
     failure |-> FALSE, report |-> FALSE, output |-> None, err |-> None]

Raised(e) == [NoOutcome EXCEPT !.kind = "raise", !.err = e]

RawResponse(ret) == [NoOutcome EXCEPT !.kind = "ret", !.request_id = ret.request_id]

\* What the platform answers to one interaction: the kind of answer (a
\* raised transport error is "exc"), the status code, whether the response
\* has a FunctionError key, the body text, the request id.
Answer(kind, status, ferr, body, request_id) ==
    [kind |-> kind, status |-> status, ferr |-> ferr, body |-> body,
     request_id |-> request_id]

TransportFailure == Answer("exc", 0, FALSE, <<>>, None)

\* An interaction with the platform, or a sleep of n seconds.
Op(name, arg) == [op |-> name, arg |-> arg, n |-> 0]
Sleep(n) == [op |-> "sleep", arg |-> <<>>, n |-> n]

\* Responses of the Lambda invoke call: status code, FunctionError key, and
\* the body as a dict or as a JSON string.
LambdaAnswers ==
    { Answer("lambda", st, fe, b, "req") :
        st \in {200, 500}, fe \in BOOLEAN, b \in {<<"dict", "out">>, <<"json", "out">>} }

\* Texts are held as the sequence of their encodings, outermost first,
\* followed by the encoded values; <<>> is the empty string.
\* json.loads of a JSON text.
json_loads(text) == text[2]

\* json.dumps of a value.
json_dumps(v) == <<"json", v>>

\* s.encode("utf-8")
utf8(text) == <<"utf-8">> \o text

\* base64.b64encode(b).decode("utf-8")
b64encode(bytes) == <<"base64">> \o bytes

Idle ==
    [mode |-> "none", trig |-> "none", payload |-> None, pc |-> "idle", t |-> 0,
     begin |-> 0, execution |-> None, polls |-> 0, ops |-> <<>>, resp |-> <<>>,
     outcome |-> NoOutcome, handle |-> "none", joined |-> NoOutcome]

TrigInit ==
    /\ inv = [c \in Slots |-> Idle]
    /\ file = <<>>
    /\ func_arns = <<>>
    /\ loaded = "no"
    /\ perr = None
    /\ states = <<>>
    /\ root = None
    /\ gpc = "idle"
    /\ idx = 0
    /\ payloads = <<>>
    /\ docs = <<>>
    /\ exports = 0
    /\ trigger = <<>>
    /\ cached = <<>>
    /\ restored = <<>>
    /\ provisioned = <<>>
    /\ args = <<>>
    /\ SysIdle
    /\ PubIdle
    /\ WrapIdle

\* One more interaction of the invocation in slot c: the operation and what
\* the platform answered.
Logged(r, op, answer) == [r EXCEPT !.ops = Append(@, op), !.resp = Append(@, answer)]

Finish(r, outcome) == [r EXCEPT !.pc = "done", !.outcome = outcome]

\* trigger.sync_invoke(payload) is called in slot c.
SyncInvoke(c) ==
    /\ inv[c].mode = "none"
    /\ \E v \in Variants, p \in Payloads :
         inv' = [inv EXCEPT ![c] = [Idle EXCEPT !.mode = "sync", !.trig = v,
                                                 !.payload = p, !.pc = "start"]]
    /\ UNCHANGED <<file, gvars, svars, xvars>>

\* Mutant of library_result: a FunctionError in the response is not looked at.
library_result_no_ferr(ret, begin, end) ==
    LET aws_result == [from_times(begin, end) EXCEPT !.request_id = ret.request_id] IN
    IF ret.status # 200 THEN [aws_result EXCEPT !.failure = TRUE]
    ELSE [aws_result EXCEPT
            !.report = TRUE,
            !.output = IF ret.body[1] = "dict" THEN ret.body[2] ELSE json_loads(ret.body)]

\* FunctionLibraryTrigger.sync_invoke, lines 56-80, on the response ret.
library_result(ret, begin, end) ==
    LET aws_result == [from_times(begin, end) EXCEPT !.request_id = ret.request_id] IN
    IF ret.status # 200 THEN [aws_result EXCEPT !.failure = TRUE]
    ELSE IF ret.ferr THEN [aws_result EXCEPT !.failure = TRUE]
    ELSE [aws_result EXCEPT
            !.report = TRUE,
            !.output = IF ret.body[1] = "dict" THEN ret.body[2] ELSE json_loads(ret.body)]

\* FunctionLibraryTrigger.sync_invoke
LibraryInvoke(c) ==
    /\ inv[c].trig = "AWS.FunctionLibrary" /\ inv[c].pc = "start"
    /\ \E ret \in LambdaAnswers \cup {TransportFailure} :
         LET r == Logged(inv[c], Op("invoke", utf8(json_dumps(inv[c].payload))), ret) IN
         inv' = [inv EXCEPT ![c] =
                    IF ret.kind = "exc" THEN Finish(r, Raised("TransportError"))
                    ELSE Finish(r, library_result(ret, r.t, r.t))]
    /\ UNCHANGED <<file, gvars, svars, xvars>>

\* WorkflowLibraryTrigger.sync_invoke, lines 105-112: the execution is started.
WorkflowStart(c) ==
    /\ inv[c].trig = "AWS.WorkflowLibrary" /\ inv[c].pc = "start"
    /\ \E ret \in {Answer("started", 200, FALSE, <<>>, "req"), TransportFailure},
          d \in Latencies :
         LET begin == inv[c].t
             r == [Logged(inv[c], Op("start_execution", json_dumps(inv[c].payload)), ret)
                     EXCEPT !.t = @ + d]
             end == r.t
         IN
         inv' = [inv EXCEPT ![c] =
                    IF ret.kind = "exc" THEN Finish(r, Raised("TransportError"))
                    ELSE [r EXCEPT !.pc = "poll", !.execution = "arn:exec",
                                   !.outcome = [from_times(begin, end) EXCEPT
                                                   !.request_id = ret.request_id,
                                                   !.kind = "pending"]]]
    /\ UNCHANGED <<file, gvars, svars, xvars>>

\* Mutant of execution_failed: every status but SUCCEEDED counts as a failure.
execution_failed_strict(status) == status # "SUCCEEDED"

\* WorkflowLibraryTrigger.sync_invoke, line 124.
execution_failed(status) == status = "FAILED"

ExecutionStatuses == {"RUNNING", "SUCCEEDED", "FAILED", "TIMED_OUT", "ABORTED"}

\* Mutant of WorkflowPoll: the end timestamp is taken when the terminal
\* status is seen.
WorkflowPoll_end_at_terminal(c) ==
    /\ inv[c].trig = "AWS.WorkflowLibrary" /\ inv[c].pc = "poll"
    /\ \E ret \in {Answer("status", 200, FALSE, <<st>>, None) : st \in ExecutionStatuses}
                  \cup {TransportFailure} :
         /\ ret.body = <<"RUNNING">> => inv[c].polls < MaxPolls
         /\ LET r == Logged(inv[c], Op("describe_execution", <<inv[c].execution>>), ret)
                status == ret.body[1]
                execution_finished == status # "RUNNING"
            IN  inv' = [inv EXCEPT ![c] =
                   IF ret.kind = "exc" THEN Finish(r, Raised("TransportError"))
                   ELSE IF ~execution_finished
                        THEN [r EXCEPT !.pc = "sleep", !.polls = @ + 1]
                   ELSE Finish(r, [r.outcome EXCEPT !.kind = "result", !.end = r.t,
                                                    !.failure = execution_failed(status)])]
    /\ UNCHANGED <<file, gvars, svars, xvars>>

\* WorkflowLibraryTrigger.sync_invoke, lines 117-130: one describe_execution.
WorkflowPoll(c) ==
    /\ inv[c].trig = "AWS.WorkflowLibrary" /\ inv[c].pc = "poll"
    /\ \E ret \in {Answer("status", 200, FALSE, <<st>>, None) : st \in ExecutionStatuses}
                  \cup {TransportFailure} :
         /\ ret.body = <<"RUNNING">> => inv[c].polls < MaxPolls
         /\ LET r == Logged(inv[c], Op("describe_execution", <<inv[c].execution>>), ret)
                status == ret.body[1]
                execution_finished == status # "RUNNING"
            IN  inv' = [inv EXCEPT ![c] =
                   IF ret.kind = "exc" THEN Finish(r, Raised("TransportError"))
                   ELSE IF ~execution_finished
                        THEN [r EXCEPT !.pc = "sleep", !.polls = @ + 1]
                   ELSE IF execution_failed(status)
                        THEN Finish(r, [r.outcome EXCEPT !.kind = "result", !.failure = TRUE])
                   ELSE Finish(r, [r.outcome EXCEPT !.kind = "result"])]
    /\ UNCHANGED <<file, gvars, svars, xvars>>

\* time.sleep(10)
WorkflowSleep(c) ==
    /\ inv[c].trig = "AWS.WorkflowLibrary" /\ inv[c].pc = "sleep"
    /\ inv' = [inv EXCEPT ![c] = [@ EXCEPT !.pc = "poll", !.t = @ + WorkflowPollInterval,
                                          !.ops = Append(@, Sleep(WorkflowPollInterval))]]
    /\ UNCHANGED <<file, gvars, svars, xvars>>

\* Trigger._http_invoke(payload, url): a POST, timed; a response other than
\* 200 and a failed request both yield a failed result.
http_invoke(r, body, ret) ==
    IF ret.kind = "exc" THEN [from_times(r.t, r.t) EXCEPT !.failure = TRUE]
    ELSE IF ret.status # 200
         THEN [from_times(r.t, r.t) EXCEPT !.failure = TRUE, !.request_id = ret.request_id]
    ELSE [from_times(r.t, r.t) EXCEPT !.request_id = ret.request_id,
                                      !.output = json_loads(ret.body)]

\* HTTPTrigger.sync_invoke (AWS and Azure)
HttpInvoke(c) ==
    /\ inv[c].trig \in {"AWS.HTTP", "Azure.HTTP"} /\ inv[c].pc = "start"
    /\ \E ret \in {Answer("http", st, FALSE, json_dumps("out"), "req") : st \in {200, 500}}
                  \cup {TransportFailure} :
         LET body == IF inv[c].trig = "Azure.HTTP"
                     THEN json_dumps(inv[c].payload) \o <<"connection_string">>
                     ELSE json_dumps(inv[c].payload)
             r == Logged(inv[c], Op("post", body), ret)
         IN  inv' = [inv EXCEPT ![c] = Finish(r, http_invoke(r, body, ret))]
    /\ UNCHANGED <<file, gvars, svars, xvars>>


\* What a receive_message on the result queue yields: nothing yet, or the
\* JSON text of the benchmark output.
QueueAnswers == {Answer("msg", 200, FALSE, <<>>, None),
                 Answer("msg", 200, FALSE, json_dumps("out"), None)}

\* Mutant of QueueSend: the payload is published to the result queue.
QueueSend_to_result_queue(c) ==
    /\ inv[c].trig = "Azure.Queue" /\ inv[c].pc = "start"
    /\ \E ret \in {Answer("sent", 200, FALSE, <<>>, None), TransportFailure} :
         LET serialized_payload == b64encode(utf8(json_dumps(inv[c].payload)))
             r == Logged(inv[c], Op("send_message", <<"result_queue">> \o serialized_payload),
                         ret)
         IN  inv' = [inv EXCEPT ![c] =
                        IF ret.kind = "exc" THEN Finish(r, Raised("TransportError"))
                        ELSE [r EXCEPT !.pc = "poll", !.begin = r.t]]
    /\ UNCHANGED <<file, gvars, svars, xvars>>

\* QueueTrigger.sync_invoke, lines 137-139: the payload is published.
QueueSend(c) ==
    /\ inv[c].trig = "Azure.Queue" /\ inv[c].pc = "start"
    /\ \E ret \in {Answer("sent", 200, FALSE, <<>>, None), TransportFailure} :
         LET serialized_payload == b64encode(utf8(json_dumps(inv[c].payload)))
             r == Logged(inv[c], Op("send_message", <<"queue">> \o serialized_payload), ret)
         IN  inv' = [inv EXCEPT ![c] =
                        IF ret.kind = "exc" THEN Finish(r, Raised("TransportError"))
                        ELSE [r EXCEPT !.pc = "poll", !.begin = r.t]]
    /\ UNCHANGED <<file, gvars, svars, xvars>>

\* QueueTrigger.sync_invoke, lines 142-151: one receive_message.
QueuePoll(c) ==
    /\ inv[c].trig = "Azure.Queue" /\ inv[c].pc = "poll"
    /\ \E ret \in QueueAnswers \cup {TransportFailure}, d \in Latencies :
         /\ (ret.kind = "msg" /\ ret.body = <<>>) => inv[c].polls < MaxPolls
         /\ LET r == [Logged(inv[c], Op("receive_message", <<"result_queue">>), ret)
                        EXCEPT !.t = @ + d]
                response == ret.body
            IN  inv' = [inv EXCEPT ![c] =
                   IF ret.kind = "exc" THEN Finish(r, Raised("TransportError"))
                   ELSE IF response = <<>> THEN [r EXCEPT !.pc = "sleep", !.polls = @ + 1]
                   ELSE Finish(r, [from_times(r.begin, r.t) EXCEPT
                                      !.output = json_loads(response)])]
    /\ UNCHANGED <<file, gvars, svars, xvars>>

\* Mutant of QueueSleep: the loop polls again without waiting.
QueueSleep_busy(c) ==
    /\ inv[c].trig = "Azure.Queue" /\ inv[c].pc = "sleep"
    /\ inv' = [inv EXCEPT ![c] = [@ EXCEPT !.pc = "poll",
                                          !.ops = Append(@, Sleep(0))]]
    /\ UNCHANGED <<file, gvars, svars, xvars>>

\* time.sleep(5) of the queue trigger.
QueueSleep(c) ==
    /\ inv[c].trig = "Azure.Queue" /\ inv[c].pc = "sleep"
    /\ inv' = [inv EXCEPT ![c] = [@ EXCEPT !.pc = "poll", !.t = @ + QueuePollInterval,
                                          !.ops = Append(@, Sleep(QueuePollInterval))]]
    /\ UNCHANGED <<file, gvars, svars, xvars>>

\* StorageTrigger.sync_invoke, lines 263-265: payload.json is written.
StorageWrite(c) ==
    /\ inv[c].trig = "Azure.Storage" /\ inv[c].pc = "start"
    /\ file' = json_dumps(inv[c].payload)
    /\ inv' = [inv EXCEPT ![c] = [@ EXCEPT !.pc = "upload"]]
    /\ UNCHANGED <<gvars, svars, xvars>>

\* Mutant of StorageUpload: the first receive_message is not preceded by a
\* wait, as in the queue trigger.
StorageUpload_poll_first(c) ==
    /\ inv[c].trig = "Azure.Storage" /\ inv[c].pc = "upload"
    /\ \E ret \in {Answer("uploaded", 200, FALSE, <<>>, None), TransportFailure} :
         LET r == Logged(inv[c], Op("upload_blob", <<"payload.json">> \o file), ret) IN
         inv' = [inv EXCEPT ![c] =
                    IF ret.kind = "exc" THEN Finish(r, Raised("TransportError"))
                    ELSE [r EXCEPT !.pc = "poll", !.begin = r.t]]
    /\ UNCHANGED <<file, gvars, svars, xvars>>

\* StorageTrigger.sync_invoke, lines 268-278: payload.json is read and uploaded.
StorageUpload(c) ==
    /\ inv[c].trig = "Azure.Storage" /\ inv[c].pc = "upload"
    /\ \E ret \in {Answer("uploaded", 200, FALSE, <<>>, None), TransportFailure} :
         LET r == Logged(inv[c], Op("upload_blob", <<"payload.json">> \o file), ret) IN
         inv' = [inv EXCEPT ![c] =
                    IF ret.kind = "exc" THEN Finish(r, Raised("TransportError"))
                    ELSE [r EXCEPT !.pc = "sleep", !.begin = r.t]]
    /\ UNCHANGED <<file, gvars, svars, xvars>>

\* time.sleep(5) of the storage trigger, before each receive_message.
StorageSleep(c) ==
    /\ inv[c].trig = "Azure.Storage" /\ inv[c].pc = "sleep"
    /\ inv' = [inv EXCEPT ![c] = [@ EXCEPT !.pc = "poll", !.t = @ + QueuePollInterval,
                                          !.ops = Append(@, Sleep(QueuePollInterval))]]
    /\ UNCHANGED <<file, gvars, svars, xvars>>

\* StorageTrigger.sync_invoke, lines 281-289: one receive_message.
StoragePoll(c) ==
    /\ inv[c].trig = "Azure.Storage" /\ inv[c].pc = "poll"
    /\ \E ret \in QueueAnswers \cup {TransportFailure}, d \in Latencies :
         /\ (ret.kind = "msg" /\ ret.body = <<>>) => inv[c].polls < MaxPolls
         /\ LET r == [Logged(inv[c], Op("receive_message", <<"result_queue">>), ret)
                        EXCEPT !.t = @ + d]
                response == ret.body
            IN  inv' = [inv EXCEPT ![c] =
                   IF ret.kind = "exc" THEN Finish(r, Raised("TransportError"))
                   ELSE IF response = <<>> THEN [r EXCEPT !.pc = "sleep", !.polls = @ + 1]
                   ELSE Finish(r, [from_times(r.begin, r.t) EXCEPT
                                      !.output = json_loads(response)])]
    /\ UNCHANGED <<file, gvars, svars, xvars>>

\* What async_invoke of each trigger class does: "submit" hands sync_invoke
\* to a thread pool, "event" makes an Event invocation in the caller's
\* thread, "unimplemented" raises NotImplementedError.
async_invoke(v) ==
    IF v = "AWS.FunctionLibrary" THEN "event"
    ELSE IF v = "AWS.WorkflowLibrary" THEN "unimplemented"
    ELSE "submit"

\* trigger.async_invoke(payload) is called in slot c.
AsyncInvoke(c) ==
    /\ inv[c].mode = "none"
    /\ \E v \in Variants, p \in Payloads :
         LET r == [Idle EXCEPT !.mode = "async", !.trig = v, !.payload = p] IN
         IF async_invoke(v) = "submit"
         THEN inv' = [inv EXCEPT ![c] = [r EXCEPT !.pc = "start", !.handle = "future"]]
         ELSE IF async_invoke(v) = "event"
         THEN \E ret \in {Answer("lambda", st, FALSE, <<>>, "req") : st \in {202, 500}}
                         \cup {TransportFailure} :
                LET q == Logged(r, Op("invoke_event", utf8(json_dumps(p))), ret) IN
                inv' = [inv EXCEPT ![c] =
                    IF ret.kind = "exc"
                    THEN [q EXCEPT !.pc = "done", !.joined = Raised("TransportError")]
                    ELSE IF ret.status # 202
                    THEN [q EXCEPT !.pc = "done", !.joined = Raised("RuntimeError")]
                    ELSE [q EXCEPT !.pc = "done", !.handle = "ret",
                                   !.joined = RawResponse(ret)]]
         ELSE inv' = [inv EXCEPT ![c] =
                         [r EXCEPT !.pc = "done", !.joined = Raised("NotImplementedError")]]
    /\ UNCHANGED <<file, gvars, svars, xvars>>

\* future.result(): the caller joins the handle of a finished invocation.
Join(c) ==
    /\ inv[c].mode = "async" /\ inv[c].handle = "future"
    /\ inv[c].pc = "done" /\ inv[c].joined.kind = "none"
    /\ inv' = [inv EXCEPT ![c] = [@ EXCEPT !.joined = inv[c].outcome]]
    /\ UNCHANGED <<file, gvars, svars, xvars>>

TrigNext ==
    \E c \in Slots :
        \/ SyncInvoke(c) \/ AsyncInvoke(c) \/ Join(c)
        \/ LibraryInvoke(c)
        \/ WorkflowStart(c) \/ WorkflowPoll(c) \/ WorkflowSleep(c)
        \/ HttpInvoke(c)
        \/ QueueSend(c) \/ QueuePoll(c) \/ QueueSleep(c)
        \/ StorageWrite(c) \/ StorageUpload(c) \/ StorageSleep(c) \/ StoragePoll(c)

SpecTrig == TrigInit /\ [][TrigNext]_vars

-----------------------------------------------------------------------------
(* Properties of the invocations *)

Last(sq) == sq[Len(sq)]

\* C6: async_invoke of every trigger returns a handle on a worker that runs
\* sync_invoke.
C6_AsyncAlwaysOffloads ==
    \A c \in Slots : inv[c].mode = "async" => inv[c].handle = "future"

\* C7: a function library sync_invoke whose response has a status other than
\* 200 or carries a FunctionError returns a result with the failure flag set,
\* with neither the log report nor the benchmark output parsed.
C7_LibraryFailureFlag ==
    \A c \in Slots :
        ( /\ inv[c].trig = "AWS.FunctionLibrary" /\ inv[c].mode = "sync"
          /\ inv[c].pc = "done" /\ Last(inv[c].resp).kind = "lambda"
          /\ (Last(inv[c].resp).status # 200 \/ Last(inv[c].resp).ferr) )
        => /\ inv[c].outcome.kind = "result"
           /\ inv[c].outcome.failure
           /\ ~inv[c].outcome.report
           /\ inv[c].outcome.output = None
           /\ inv[c].outcome.request_id = Last(inv[c].resp).request_id

C7_Witness ==
    \E c \in Slots :
        /\ inv[c].trig = "AWS.FunctionLibrary" /\ inv[c].mode = "sync" /\ inv[c].pc = "done"
        /\ Last(inv[c].resp).kind = "lambda"
        /\ Last(inv[c].resp).status = 200 /\ Last(inv[c].resp).ferr
        /\ inv[c].outcome.kind = "result" /\ inv[c].outcome.failure

\* The number of operations of the given name an invocation has made.
OpCount(r, name) == Cardinality({i \in DOMAIN r.ops : r.ops[i].op = name})

\* The statuses describe_execution has answered, oldest first.
StatusAnswers(r) == SelectSeq(r.resp, LAMBDA a : a.kind = "status")

\* C8: the workflow sync_invoke starts the execution once, returns a result
\* exactly when a poll answers a status other than RUNNING, every earlier
\* poll having answered RUNNING, and the failure flag is set iff that status
\* is FAILED; nothing is raised on FAILED.
C8_WorkflowPolling ==
    \A c \in Slots : (inv[c].trig = "AWS.WorkflowLibrary" /\ inv[c].mode = "sync") =>
        LET r == inv[c]
            seen == StatusAnswers(r)
        IN  /\ OpCount(r, "start_execution") = (IF r.pc = "start" THEN 0 ELSE 1)
            /\ r.ops # <<>> => r.ops[1].op = "start_execution"
            /\ \A i \in 1..(Len(seen) - 1) : seen[i].body = <<"RUNNING">>
            /\ r.outcome.kind = "result" <=>
                  (seen # <<>> /\ Last(seen).body # <<"RUNNING">> /\ Last(r.resp).kind = "status")
            /\ r.outcome.kind = "result" =>
                  /\ r.pc = "done"
                  /\ r.outcome.failure <=> (Last(seen).body = <<"FAILED">>)
            /\ r.pc = "done" => r.outcome.kind \in {"result", "raise"}
            /\ r.outcome.kind = "raise" => Last(r.resp).kind = "exc"

C8_Witness ==
    \E c \in Slots :
        /\ inv[c].trig = "AWS.WorkflowLibrary" /\ inv[c].mode = "sync" /\ inv[c].pc = "done"
        /\ Len(StatusAnswers(inv[c])) = 2
        /\ StatusAnswers(inv[c])[1].body = <<"RUNNING">>
        /\ StatusAnswers(inv[c])[2].body = <<"TIMED_OUT">>
        /\ inv[c].outcome.kind = "result" /\ ~inv[c].outcome.failure
        /\ OpCount(inv[c], "sleep") = 1

\* C9: a transport failure during a sync_invoke of the library,
\* queue or storage trigger ends in a returned result with the failure flag.
C9_TransportAbsorbed ==
    \A c \in Slots :
        ( /\ inv[c].mode = "sync" /\ inv[c].pc = "done"
          /\ inv[c].trig \in {"AWS.FunctionLibrary", "Azure.Queue", "Azure.Storage"}
          /\ \E i \in DOMAIN inv[c].resp : inv[c].resp[i].kind = "exc" )
        => (inv[c].outcome.kind = "result" /\ inv[c].outcome.failure)

\* The result-queue answers an invocation has received, oldest first.
QueueResponses(r) == SelectSeq(r.resp, LAMBDA a : a.kind = "msg")

\* The number of polls of an invocation that found no message.
EmptyPolls(r) == Len(SelectSeq(r.resp, LAMBDA a : a.kind = "msg" /\ a.body = <<>>))

\* C12: the duration a queue trigger's sync_invoke measures is at least
\* 5 seconds times the number of polls that found no message, so at least
\* one poll interval when the first poll finds none.
C12_QueueDuration ==
    \A c \in Slots :
        ( /\ inv[c].trig = "Azure.Queue" /\ inv[c].pc = "done"
          /\ inv[c].outcome.kind = "result" )
        => /\ inv[c].outcome.end - inv[c].outcome.begin
                 >= QueuePollInterval * EmptyPolls(inv[c])
           /\ (QueueResponses(inv[c])[1].body = <<>>)
                 => inv[c].outcome.end - inv[c].outcome.begin >= QueuePollInterval

\* A queue invocation has returned after two empty polls.
C12_Witness ==
    \E c \in Slots :
        /\ inv[c].trig = "Azure.Queue" /\ inv[c].pc = "done"
        /\ inv[c].outcome.kind = "result" /\ EmptyPolls(inv[c]) = 2
        /\ inv[c].outcome.end - inv[c].outcome.begin >= 2 * QueuePollInterval

\* The receive and wait steps of an invocation, oldest first.
PollSteps(r) == SelectSeq(r.ops, LAMBDA o : o.op \in {"receive_message", "sleep"})

\* The number of waits of an invocation.
Waits(r) == Len(SelectSeq(r.ops, LAMBDA o : o.op = "sleep"))

\* A queue invocation in slot c and a storage invocation in slot d have
\* returned after the same result-queue answers.
SameResponses(c, d) ==
    /\ inv[c].trig = "Azure.Queue" /\ inv[d].trig = "Azure.Storage"
    /\ inv[c].pc = "done" /\ inv[d].pc = "done"
    /\ inv[c].outcome.kind = "result" /\ inv[d].outcome.kind = "result"
    /\ QueueResponses(inv[c]) = QueueResponses(inv[d])

\* C13: for the same result-queue answers the storage trigger and the queue
\* trigger perform the same receive and wait steps.
C13_SamePolling ==
    \A c, d \in Slots : SameResponses(c, d) => PollSteps(inv[c]) = PollSteps(inv[d])

\* C13, amended: for the same result-queue answers the two triggers perform
\* the same receives, the storage trigger waiting 5 seconds before every
\* receive and the queue trigger after every empty one: the storage trigger
\* waits once more, and at least once.
C13_StorageWaitsFirst ==
    \A c, d \in Slots : SameResponses(c, d) =>
        /\ OpCount(inv[c], "receive_message") = OpCount(inv[d], "receive_message")
        /\ Waits(inv[d]) = Waits(inv[c]) + 1
        /\ Waits(inv[d]) = OpCount(inv[d], "receive_message")
        /\ PollSteps(inv[d]) = <<Sleep(QueuePollInterval)>> \o PollSteps(inv[c])

\* Both triggers have returned after one empty poll and a message.
C13_Witness ==
    \E c, d \in Slots :
        /\ SameResponses(c, d)
        /\ EmptyPolls(inv[c]) = 1
        /\ Waits(inv[c]) = 1 /\ Waits(inv[d]) = 2

\* C14: a sync_invoke of the queue, storage or workflow trigger ends only by
\* returning a result after a poll has found a message (a status other than
\* RUNNING); until then it neither returns nor raises.
C14_EndsOnlyOnMessage ==
    \A c \in Slots :
        ( /\ inv[c].trig \in {"Azure.Queue", "Azure.Storage", "AWS.WorkflowLibrary"}
          /\ inv[c].mode = "sync" /\ inv[c].pc = "done" )
        => /\ inv[c].outcome.kind = "result"
           /\ Last(inv[c].resp).kind \in {"msg", "status"}
           /\ Last(inv[c].resp).body \notin {<<>>, <<"RUNNING">>}

\* C15: every upload and every publication of a sync_invoke carries the
\* payload that invocation was given.
C15_OwnPayload ==
    \A c \in Slots : \A i \in DOMAIN inv[c].ops :
        /\ inv[c].ops[i].op = "upload_blob"
              => inv[c].ops[i].arg = <<"payload.json">> \o json_dumps(inv[c].payload)
        /\ inv[c].ops[i].op = "send_message"
              => inv[c].ops[i].arg
                    = <<"queue">> \o b64encode(utf8(json_dumps(inv[c].payload)))

\* C26: a queue trigger's sync_invoke publishes the encoded payload to the
\* trigger queue as its first interaction and never again, afterwards only
\* receives from the result queue and sleeps, and the receive that returns
\* the message is its last interaction.
C26_PublishOncePollAfter ==
    \A c \in Slots :
        (inv[c].trig = "Azure.Queue" /\ inv[c].pc # "start") =>
            LET ops == inv[c].ops IN
            /\ Len(ops) >= 1
            /\ ops[1] = Op("send_message",
                           <<"queue">> \o b64encode(utf8(json_dumps(inv[c].payload))))
            /\ \A i \in 2..Len(ops) :
                  \/ ops[i] = Op("receive_message", <<"result_queue">>)
                  \/ ops[i].op = "sleep" /\ ops[i - 1].op = "receive_message"
            /\ (inv[c].pc = "done" /\ inv[c].outcome.kind = "result") =>
                  /\ ops[Len(ops)].op = "receive_message"
                  /\ inv[c].resp[Len(inv[c].resp)].body # <<>>

\* A queue invocation has returned after an empty poll, a wait and a poll
\* that found the message.
C26_Witness ==
    \E c \in Slots :
        /\ inv[c].trig = "Azure.Queue" /\ inv[c].pc = "done"
        /\ inv[c].outcome.kind = "result"
        /\ Len(inv[c].ops) = 4
        /\ inv[c].ops[3].op = "sleep" /\ inv[c].ops[4].op = "receive_message"

\* The timestamps and the request id of a result.
Stamps(outcome) == <<outcome.begin, outcome.end, outcome.request_id>>

\* C27: once start_execution has returned, no status poll and no wait of a
\* workflow invocation changes the begin timestamp, the end timestamp or
\* the request id of its result; a poll changes the failure flag at most,
\* so the end timestamp of a result returned after a wait lies before the
\* time the terminal status was seen.
C27_PollsKeepTimestamps ==
    [][ \A c \in Slots :
           (/\ inv[c].trig = "AWS.WorkflowLibrary"
            /\ inv[c].pc \in {"poll", "sleep"}
            /\ inv'[c].outcome.kind # "raise") =>
               /\ Stamps(inv'[c].outcome) = Stamps(inv[c].outcome)
               /\ inv'[c].outcome.output = inv[c].outcome.output
               /\ inv'[c].outcome.report = inv[c].outcome.report
               /\ (inv'[c].pc = "done" /\ inv'[c].polls >= 1) =>
                     inv'[c].outcome.end < inv'[c].t ]_vars

\* A workflow invocation has returned a failed result after two waits, with
\* the end timestamp of the start call.
C27_Witness ==
    \E c \in Slots :
        /\ inv[c].trig = "AWS.WorkflowLibrary" /\ inv[c].pc = "done"
        /\ inv[c].outcome.kind = "result" /\ inv[c].outcome.failure
        /\ inv[c].polls = 2
        /\ inv[c].outcome.begin = 0 /\ inv[c].outcome.end = 1
        /\ inv[c].t = 1 + 2 * WorkflowPollInterval

-----------------------------------------------------------------------------
(* Trigger objects and their persisted records *)

Names == {"f", "g"}
Urls == {"https://a", "https://b"}
ApiIds == {"api1", "api2"}
StorageAccounts == {"acc1", "acc2"}
Regions == {"west", "east"}
ContainerNames == {"f", "box"}

EmptyDict == <<>>

\* An object with every attribute the trigger classes set, None where the
\* class has none.
NoQueue == [name |-> None, queue_type |-> None, storage_account |-> None, region |-> None]

NoTrigger ==
    [cls |-> None, name |-> None, url |-> None, api_id |-> None,
     storage_account |-> None, region |-> None, queue |-> NoQueue,
     result_queue |-> NoQueue, container_name |-> None,
     deployment_client |-> None, data_storage_account |-> None]

\* What a constructor yields: the object and the resources it created.
Made(self, created) == [self |-> self, created |-> created]

\* AzureQueue(benchmark, queue_type, storage_account, region)
AzureQueue(name, queue_type, storage_account, region) ==
    [name |-> name, queue_type |-> queue_type, storage_account |-> storage_account,
     region |-> region]

\* AzureQueue.serialize
AzureQueue_serialize(q) ==
    ("name" :> q.name @@ "type" :> q.queue_type
     @@ "storage_account" :> q.storage_account @@ "region" :> q.region)

\* AzureQueue.deserialize
AzureQueue_deserialize(obj) ==
    AzureQueue(obj["name"], obj["type"], obj["storage_account"], obj["region"])

\* LibraryTrigger.__init__, for the subclass cls
LibraryTrigger(cls, fname, deployment_client) ==
    Made([NoTrigger EXCEPT !.cls = cls, !.name = fname,
                           !.deployment_client = deployment_client], <<>>)

\* Mutant of LibraryTrigger_serialize: the record names the class instead of
\* the function.
LibraryTrigger_serialize_class_name(self) == ("type" :> "Library" @@ "name" :> self.cls)

\* LibraryTrigger.serialize
LibraryTrigger_serialize(self) == ("type" :> "Library" @@ "name" :> self.name)

\* LibraryTrigger.deserialize, a classmethod
LibraryTrigger_deserialize(cls, obj) == LibraryTrigger(cls, obj["name"], None)

\* aws HTTPTrigger.__init__
AWS_HTTPTrigger(url, api_id) ==
    Made([NoTrigger EXCEPT !.cls = "AWS.HTTP", !.url = url, !.api_id = api_id], <<>>)

\* aws HTTPTrigger.serialize
AWS_HTTPTrigger_serialize(self) ==
    ("type" :> "HTTP" @@ "url" :> self.url @@ "api-id" :> self.api_id)

\* aws HTTPTrigger.deserialize
AWS_HTTPTrigger_deserialize(obj) == AWS_HTTPTrigger(obj["url"], obj["api-id"])

\* azure HTTPTrigger.__init__
Azure_HTTPTrigger(url, data_storage_account) ==
    Made([NoTrigger EXCEPT !.cls = "Azure.HTTP", !.url = url,
                           !.data_storage_account = data_storage_account], <<>>)

\* azure HTTPTrigger.serialize
Azure_HTTPTrigger_serialize(self) == ("type" :> "HTTP" @@ "url" :> self.url)

\* azure HTTPTrigger.deserialize
Azure_HTTPTrigger_deserialize(obj) == Azure_HTTPTrigger(obj["url"], None)

\* A resource created on the platform.
Created(op, name) == <<op, name>>

\* Mutant of QueueTrigger: the result queue is constructed and created even
\* when one is handed in.
QueueTrigger_always_creates(fname, storage_account, region, queue, result_queue) ==
    LET q == IF queue = NoQueue
             THEN AzureQueue(fname, "TRIGGER", storage_account, region) ELSE queue
        rq == AzureQueue(fname, "RESULT", storage_account, region)
    IN  Made([NoTrigger EXCEPT !.cls = "Azure.Queue", !.name = fname,
                               !.storage_account = storage_account, !.region = region,
                               !.queue = q, !.result_queue = rq],
             (IF queue = NoQueue THEN <<Created("create_queue", "TRIGGER")>> ELSE <<>>)
             \o <<Created("create_queue", "RESULT")>>)

\* azure QueueTrigger.__init__: a queue that is not handed in is constructed
\* and created.
QueueTrigger(fname, storage_account, region, queue, result_queue) ==
    LET q == IF queue = NoQueue
             THEN AzureQueue(fname, "TRIGGER", storage_account, region) ELSE queue
        rq == IF result_queue = NoQueue
              THEN AzureQueue(fname, "RESULT", storage_account, region) ELSE result_queue
    IN  Made([NoTrigger EXCEPT !.cls = "Azure.Queue", !.name = fname,
                               !.storage_account = storage_account, !.region = region,
                               !.queue = q, !.result_queue = rq],
             (IF queue = NoQueue THEN <<Created("create_queue", "TRIGGER")>> ELSE <<>>)
             \o (IF result_queue = NoQueue THEN <<Created("create_queue", "RESULT")>>
                 ELSE <<>>))

\* azure QueueTrigger.serialize
QueueTrigger_serialize(self) ==
    ("type" :> "Queue" @@ "name" :> self.name
     @@ "storage_account" :> self.storage_account @@ "region" :> self.region
     @@ "queue" :> AzureQueue_serialize(self.queue)
     @@ "result_queue" :> AzureQueue_serialize(self.result_queue))

\* azure QueueTrigger.deserialize
QueueTrigger_deserialize(obj) ==
    QueueTrigger(obj["name"], obj["storage_account"], obj["region"],
                 AzureQueue_deserialize(obj["queue"]),
                 AzureQueue_deserialize(obj["result_queue"]))

\* azure StorageTrigger.__init__: without a container name the container is
\* named after the function and created, and a result queue that is not
\* handed in is constructed and created.
StorageTrigger(fname, storage_account, region, result_queue, container_name) ==
    LET rq == IF result_queue = NoQueue
              THEN AzureQueue(fname, "RESULT", storage_account, region) ELSE result_queue
    IN  Made([NoTrigger EXCEPT !.cls = "Azure.Storage", !.name = fname,
                               !.storage_account = storage_account, !.region = region,
                               !.result_queue = rq,
                               !.container_name = IF Truthy(container_name)
                                                  THEN container_name ELSE fname],
             (IF Truthy(container_name) THEN <<>>
              ELSE <<Created("create_container", fname)>>)
             \o (IF result_queue = NoQueue THEN <<Created("create_queue", "RESULT")>>
                 ELSE <<>>))

\* azure StorageTrigger.serialize
StorageTrigger_serialize(self) ==
    ("type" :> "Storage" @@ "name" :> self.name
     @@ "storage_account" :> self.storage_account @@ "region" :> self.region
     @@ "result_queue" :> AzureQueue_serialize(self.result_queue)
     @@ "container_name" :> self.container_name)

\* Mutant of StorageTrigger_deserialize: the container name is not passed on.
StorageTrigger_deserialize_no_container(obj) ==
    StorageTrigger(obj["name"], obj["storage_account"], obj["region"],
                   AzureQueue_deserialize(obj["result_queue"]), None)

\* azure StorageTrigger.deserialize
StorageTrigger_deserialize(obj) ==
    StorageTrigger(obj["name"], obj["storage_account"], obj["region"],
                   AzureQueue_deserialize(obj["result_queue"]), obj["container_name"])

LibraryClasses == {"AWS.FunctionLibrary", "AWS.WorkflowLibrary"}

\* self.serialize() of a trigger object
serialize(self) ==
    IF self.cls \in LibraryClasses THEN LibraryTrigger_serialize(self)
    ELSE IF self.cls = "AWS.HTTP" THEN AWS_HTTPTrigger_serialize(self)
    ELSE IF self.cls = "Azure.HTTP" THEN Azure_HTTPTrigger_serialize(self)
    ELSE IF self.cls = "Azure.Queue" THEN QueueTrigger_serialize(self)
    ELSE StorageTrigger_serialize(self)

\* cls.deserialize(obj) of a trigger class
deserialize(cls, obj) ==
    IF cls \in LibraryClasses THEN LibraryTrigger_deserialize(cls, obj)
    ELSE IF cls = "AWS.HTTP" THEN AWS_HTTPTrigger_deserialize(obj)
    ELSE IF cls = "Azure.HTTP" THEN Azure_HTTPTrigger_deserialize(obj)
    ELSE IF cls = "Azure.Queue" THEN QueueTrigger_deserialize(obj)
    ELSE StorageTrigger_deserialize(obj)

\* The queues a caller may hand to a constructor.
GivenQueues(queue_type) ==
    {NoQueue} \cup {AzureQueue("q0", queue_type, a, r) : a \in StorageAccounts, r \in Regions}

\* The arguments a deployment constructs a trigger with: the class and one
\* value per constructor parameter, None or NoQueue for an omitted one.
ConstructorArgs ==
    {[NoTrigger EXCEPT !.cls = cls, !.name = n, !.deployment_client = d] :
        cls \in LibraryClasses, n \in Names, d \in {None, "client"}}
    \cup {[NoTrigger EXCEPT !.cls = "AWS.HTTP", !.url = u, !.api_id = a] :
            u \in Urls, a \in ApiIds}
    \cup {[NoTrigger EXCEPT !.cls = "Azure.HTTP", !.url = u, !.data_storage_account = d] :
            u \in Urls, d \in {None} \cup StorageAccounts}
    \cup {[NoTrigger EXCEPT !.cls = "Azure.Queue", !.name = n, !.storage_account = a,
                            !.region = r, !.queue = q, !.result_queue = rq] :
            n \in Names, a \in StorageAccounts, r \in Regions,
            q \in GivenQueues("TRIGGER"), rq \in GivenQueues("RESULT")}
    \cup {[NoTrigger EXCEPT !.cls = "Azure.Storage", !.name = n, !.storage_account = a,
                            !.region = r, !.result_queue = rq, !.container_name = c] :
            n \in Names, a \in StorageAccounts, r \in Regions,
            rq \in GivenQueues("RESULT"), c \in {None} \cup ContainerNames}

\* cls(...): the constructor of the class, applied to the arguments.
construct(a) ==
    IF a.cls \in LibraryClasses THEN LibraryTrigger(a.cls, a.name, a.deployment_client)
    ELSE IF a.cls = "AWS.HTTP" THEN AWS_HTTPTrigger(a.url, a.api_id)
    ELSE IF a.cls = "Azure.HTTP" THEN Azure_HTTPTrigger(a.url, a.data_storage_account)
    ELSE IF a.cls = "Azure.Queue"
         THEN QueueTrigger(a.name, a.storage_account, a.region, a.queue, a.result_queue)
    ELSE StorageTrigger(a.name, a.storage_account, a.region, a.result_queue,
                        a.container_name)

\* The triggers a deployment constructs.
FreshTriggers == {construct(a) : a \in ConstructorArgs}

SerInit ==
    /\ trigger = NoTrigger
    /\ cached = EmptyDict
    /\ restored = NoTrigger
    /\ provisioned = <<>>
    /\ args = NoTrigger
    /\ inv = <<>>
    /\ file = <<>>
    /\ func_arns = <<>>
    /\ loaded = "no"
    /\ perr = None
    /\ states = <<>>
    /\ root = None
    /\ gpc = "idle"
    /\ idx = 0
    /\ payloads = <<>>
    /\ docs = <<>>
    /\ exports = 0
    /\ SysIdle
    /\ PubIdle
    /\ WrapIdle

\* A trigger is constructed for a deployed function or workflow.
Construct ==
    /\ trigger.cls = None
    /\ \E a \in ConstructorArgs :
         LET made == construct(a) IN
         /\ made \in FreshTriggers
         /\ args' = a
         /\ trigger' = made.self
         /\ provisioned' = provisioned \o made.created
    /\ UNCHANGED <<cached, restored, gvars, tvars, xvars>>

\* The setters of deployment_client and data_storage_account, used on a
\* restored trigger, which comes without them.
Attach ==
    /\ \/ /\ restored.cls \in LibraryClasses /\ restored.deployment_client = None
          /\ restored' = [restored EXCEPT !.deployment_client = "client"]
       \/ /\ restored.cls = "Azure.HTTP" /\ restored.data_storage_account = None
          /\ \E a \in StorageAccounts :
               restored' = [restored EXCEPT !.data_storage_account = a]
    /\ UNCHANGED <<trigger, cached, provisioned, args, gvars, tvars, xvars>>

\* The trigger is serialized into the cache.
Serialize ==
    /\ trigger.cls # None /\ DOMAIN cached = {}
    /\ cached' = serialize(trigger)
    /\ UNCHANGED <<trigger, restored, provisioned, args, gvars, tvars, xvars>>

\* A trigger is deserialized from the cached record by the class that wrote it.
Deserialize ==
    /\ DOMAIN cached # {} /\ restored.cls = None
    /\ LET made == deserialize(trigger.cls, cached) IN
         /\ restored' = made.self
         /\ provisioned' = provisioned \o made.created
    /\ UNCHANGED <<trigger, cached, args, gvars, tvars, xvars>>

SerNext == Construct \/ Attach \/ Serialize \/ Deserialize

SpecSer == SerInit /\ [][SerNext]_vars

\* The target and the resource handles of a trigger.
Handles(t) ==
    <<t.cls, t.name, t.url, t.api_id, t.storage_account, t.region, t.queue,
      t.result_queue, t.container_name>>

\* C10: the trigger deserialized from serialize(t) has the class, the name or
\* URL and the resource handles of t (api id, storage account, region,
\* trigger queue, result queue, container name), and serializes to the same
\* record.
C10_RoundTrip ==
    restored.cls # None =>
        /\ cached = serialize(trigger)
        /\ Handles(restored) = Handles(trigger)
        /\ serialize(restored) = cached

\* A storage trigger whose container is not named after the function and
\* whose result queue was handed in has been restored.
C10_Witness ==
    /\ restored.cls = "Azure.Storage"
    /\ trigger.container_name = "box" /\ trigger.name = "g"
    /\ trigger.result_queue.name = "q0"
    /\ restored.container_name = "box" /\ restored.result_queue.name = "q0"

\* The number of times the constructors have created the given resource.
TimesCreated(op, name) ==
    Cardinality({i \in DOMAIN provisioned : provisioned[i] = Created(op, name)})

\* The number of creations the constructor arguments call for.
Missing(absent) == IF absent THEN 1 ELSE 0

\* C11: a Queue or Storage trigger constructed without a handle creates the
\* missing trigger queue, result queue or container exactly once and nothing
\* else, the reconstruction from the persisted record creates nothing more,
\* and after either construction every handle of the trigger is set.
C11_Provisioning ==
    /\ trigger.cls = "Azure.Queue" =>
          /\ TimesCreated("create_queue", "TRIGGER") = Missing(args.queue = NoQueue)
          /\ TimesCreated("create_queue", "RESULT") = Missing(args.result_queue = NoQueue)
          /\ Len(provisioned) = Missing(args.queue = NoQueue)
                                + Missing(args.result_queue = NoQueue)
          /\ trigger.queue # NoQueue /\ trigger.result_queue # NoQueue
          /\ restored.cls # None =>
                restored.queue # NoQueue /\ restored.result_queue # NoQueue
    /\ trigger.cls = "Azure.Storage" =>
          /\ TimesCreated("create_container", trigger.name)
                = Missing(args.container_name = None)
          /\ TimesCreated("create_queue", "RESULT") = Missing(args.result_queue = NoQueue)
          /\ Len(provisioned) = Missing(args.container_name = None)
                                + Missing(args.result_queue = NoQueue)
          /\ trigger.container_name # None /\ trigger.result_queue # NoQueue
          /\ restored.cls # None =>
                restored.container_name # None /\ restored.result_queue # NoQueue

\* A queue trigger constructed with a result queue but no trigger queue has
\* been restored from its record, one queue having been created in all.
C11_Witness ==
    /\ trigger.cls = "Azure.Queue" /\ restored.cls = "Azure.Queue"
    /\ args.queue = NoQueue /\ args.result_queue # NoQueue
    /\ provisioned = <<Created("create_queue", "TRIGGER")>>

\* C24 as stated: every persisted record holds a type field and a name field.
C24_TypeAndName ==
    DOMAIN cached # {} => {"type", "name"} \subseteq DOMAIN cached

\* The type tag each class writes.
TypeTag(cls) ==
    IF cls \in LibraryClasses THEN "Library"
    ELSE IF cls \in {"AWS.HTTP", "Azure.HTTP"} THEN "HTTP"
    ELSE IF cls = "Azure.Queue" THEN "Queue"
    ELSE "Storage"

\* C24, amended: every persisted record holds the type tag of its variant;
\* the record of a Library, Queue or Storage trigger holds the name of the
\* bound function or workflow, while the record of an HTTP trigger holds no
\* name and identifies its target by url (with api-id on AWS).
C24_TypeAndTarget ==
    DOMAIN cached # {} =>
        /\ "type" \in DOMAIN cached /\ cached["type"] = TypeTag(trigger.cls)
        /\ trigger.cls \notin {"AWS.HTTP", "Azure.HTTP"} =>
              "name" \in DOMAIN cached /\ cached["name"] = trigger.name
        /\ trigger.cls = "AWS.HTTP" =>
              /\ DOMAIN cached = {"type", "url", "api-id"}
              /\ cached["url"] = trigger.url /\ cached["api-id"] = trigger.api_id
        /\ trigger.cls = "Azure.HTTP" =>
              /\ DOMAIN cached = {"type", "url"}
              /\ cached["url"] = trigger.url

\* A library trigger of the function g has been serialized.
C24_Witness ==
    /\ trigger.cls = "AWS.WorkflowLibrary" /\ trigger.name = "g"
    /\ DOMAIN cached # {} /\ cached["name"] = "g"

-----------------------------------------------------------------------------
(* sebs/faas/system.py: get_function, get_workflow, shutdown *)

MaxCalls == 3       \* get_function / get_workflow calls on one system

FunctionNames == {"f", "g"}
Hashes == {"h1", "h2"}

\* What a platform operation (create, update) does: it returns or raises.
PlatformOutcomes == {"ok", "RuntimeError"}

\* Function(name, benchmark, code_package_hash): the deployed function or
\* workflow object.
Function(name, code_package_hash) ==
    [name |-> name, code_package_hash |-> code_package_hash, updated_code |-> FALSE]

\* Function.serialize / Function.deserialize: the cached record.
Function_serialize(function) ==
    [name |-> function.name, hash |-> function.code_package_hash]

Function_deserialize(cached_function) ==
    Function(cached_function.name, cached_function.hash)

\* Azure.default_benchmark_name(code_package)
default_benchmark_name == "bench-python-id"

\* Azure.create_function / create_workflow through create_benchmark: the
\* object carries the hash of the package it was created from.
create_benchmark(code_package, name, platform) ==
    IF platform = "ok" THEN Ok(Function(name, code_package.hash)) ELSE Raise(platform)

\* cache_client.add_benchmark(..., benchmark=function): the entry of the
\* name is written.
add_benchmark(cache, function) == DictPut(cache, function.name, Function_serialize(function))

\* The outcome of a call: what it returns or raises, the calls it made on
\* the platform and the cache, and the cache and the package's view of it
\* afterwards.
CallOutcome(ret, calls, cache, view) ==
    [ret |-> ret, calls |-> calls, cache |-> cache, benchmarks |-> view]

\* Mutant of get_benchmark: a cached entry is returned as it is, whatever
\* its hash.
get_benchmark_never_updates(create, update, code_package, func_name, rebuilt, platform) ==
    IF ~code_package.supported
    THEN CallOutcome(Raise("Exception"), <<>>, cache_functions, benchmarks)
    ELSE
    LET name == IF Truthy(func_name) THEN func_name ELSE default_benchmark_name IN
    IF name \notin DOMAIN benchmarks
    THEN LET function == create_benchmark(code_package, name, platform) IN
         IF ~function.ok
         THEN CallOutcome(function, <<create>>, cache_functions, benchmarks)
         ELSE LET cache == add_benchmark(cache_functions, function.val) IN
              CallOutcome(function, <<create, "add_benchmark", "query_cache">>,
                          cache, cache)
    ELSE CallOutcome(Ok(Function_deserialize(benchmarks[name])), <<"cached_benchmark">>,
                     cache_functions, benchmarks)

\* The body get_function and get_workflow share, with the names of the
\* platform operations each of them calls.
get_benchmark(create, update, code_package, func_name, rebuilt, platform) ==
    IF ~code_package.supported
    THEN CallOutcome(Raise("Exception"), <<>>, cache_functions, benchmarks)
    ELSE
    LET name == IF Truthy(func_name) THEN func_name ELSE default_benchmark_name IN
    IF name \notin DOMAIN benchmarks
    THEN LET function == create_benchmark(code_package, name, platform) IN
         IF ~function.ok
         THEN CallOutcome(function, <<create>>, cache_functions, benchmarks)
         ELSE LET cache == add_benchmark(cache_functions, function.val) IN
              CallOutcome(function, <<create, "add_benchmark", "query_cache">>,
                          cache, cache)
    ELSE
    LET function == Function_deserialize(benchmarks[name]) IN
    IF function.code_package_hash # code_package.hash \/ rebuilt
    THEN IF platform # "ok"
         THEN CallOutcome(Raise(platform), <<"cached_benchmark", update>>,
                          cache_functions, benchmarks)
         ELSE LET updated == [function EXCEPT !.code_package_hash = code_package.hash,
                                              !.updated_code = TRUE]
                  cache == add_benchmark(cache_functions, updated)
              IN  CallOutcome(Ok(updated),
                              <<"cached_benchmark", update, "add_benchmark", "query_cache">>,
                              cache, cache)
    ELSE CallOutcome(Ok(function), <<"cached_benchmark">>, cache_functions, benchmarks)

get_function(code_package, func_name, rebuilt, platform) ==
    get_benchmark("create_function", "update_function", code_package, func_name,
                  rebuilt, platform)

get_workflow(code_package, workflow_name, rebuilt, platform) ==
    get_benchmark("create_workflow", "update_workflow", code_package, workflow_name,
                  rebuilt, platform)

\* The code packages a call is made with: the hash of the sources and
\* whether the language version is among the supported ones.
CodePackages == [hash : Hashes, supported : BOOLEAN]

\* The record of a call: its arguments, what the package's view of the cache
\* held for the name before it, and its outcome.
Called(op, name, code_package, rebuilt, r) ==
    [op |-> op, name |-> name, hash |-> code_package.hash, rebuilt |-> rebuilt,
     cached |-> name \in DOMAIN benchmarks,
     old_hash |-> IF name \in DOMAIN benchmarks THEN benchmarks[name].hash ELSE None,
     calls |-> r.calls, ret |-> r.ret]

SysInit ==
    /\ SysIdle
    /\ PubIdle
    /\ WrapIdle
    /\ inv = <<>>
    /\ file = <<>>
    /\ trigger = <<>>
    /\ cached = <<>>
    /\ restored = <<>>
    /\ provisioned = <<>>
    /\ args = <<>>
    /\ func_arns = <<>>
    /\ loaded = "no"
    /\ perr = None
    /\ states = <<>>
    /\ root = None
    /\ gpc = "idle"
    /\ idx = 0
    /\ payloads = <<>>
    /\ docs = <<>>
    /\ exports = 0

\* System.get_function(code_package, func_name)
GetFunction ==
    /\ ~shut.done /\ ncalls < MaxCalls
    /\ \E code_package \in CodePackages, func_name \in {None} \cup FunctionNames,
          rebuilt \in BOOLEAN, platform \in PlatformOutcomes :
         LET r == get_function(code_package, func_name, rebuilt, platform)
             name == IF Truthy(func_name) THEN func_name ELSE default_benchmark_name
         IN  /\ cache_functions' = r.cache
             /\ benchmarks' = r.benchmarks
             /\ last_call' = Called("get_function", name, code_package, rebuilt, r)
    /\ ncalls' = ncalls + 1
    /\ UNCHANGED <<locked, shut, gvars, tvars, svars, pvars, wvars>>

\* System.get_workflow(code_package, workflow_name)
GetWorkflow ==
    /\ ~shut.done /\ ncalls < MaxCalls
    /\ \E code_package \in CodePackages, workflow_name \in {None} \cup FunctionNames,
          rebuilt \in BOOLEAN, platform \in PlatformOutcomes :
         LET r == get_workflow(code_package, workflow_name, rebuilt, platform)
             name == IF Truthy(workflow_name) THEN workflow_name
                     ELSE default_benchmark_name
         IN  /\ cache_functions' = r.cache
             /\ benchmarks' = r.benchmarks
             /\ last_call' = Called("get_workflow", name, code_package, rebuilt, r)
    /\ ncalls' = ncalls + 1
    /\ UNCHANGED <<locked, shut, gvars, tvars, svars, pvars, wvars>>

\* Cache.lock() and Cache.unlock() on the lock of the cache.
Cache_lock(held) == TRUE

Cache_unlock(held) == FALSE

\* The state of the cache lock after the calls made on the cache client.
RECURSIVE LockAfter(_, _)
LockAfter(calls, held) ==
    IF calls = <<>> THEN held
    ELSE LockAfter(Tail(calls),
                   IF Head(calls) = "lock" THEN Cache_lock(held)
                   ELSE IF Head(calls) = "unlock" THEN Cache_unlock(held)
                   ELSE held)

\* What config.update_cache(cache_client) does: it returns or raises.
UpdateOutcomes == {"ok", "OSError"}

\* Mutant of shutdown: unlock follows update_cache without a finally.
shutdown_no_finally(update) ==
    [done |-> TRUE, update |-> update,
     calls |-> IF update = "ok" THEN <<"lock", "update_cache", "unlock">>
               ELSE <<"lock", "update_cache">>,
     err |-> IF update = "ok" THEN None ELSE update]

\* System.shutdown(): try: lock(); update_cache() finally: unlock()
shutdown(update) ==
    [done |-> TRUE, update |-> update,
     calls |-> <<"lock", "update_cache", "unlock">>,
     err |-> IF update = "ok" THEN None ELSE update]

Shutdown ==
    /\ ~shut.done
    /\ \E update \in UpdateOutcomes :
         /\ shut' = shutdown(update)
         /\ locked' = LockAfter(shutdown(update).calls, locked)
    /\ UNCHANGED <<cache_functions, benchmarks, last_call, ncalls, gvars, tvars, svars, pvars, wvars>>

SysNext == GetFunction \/ GetWorkflow \/ Shutdown

SpecSys == SysInit /\ [][SysNext]_vars

\* The number of calls of the given operation the latest call made.
TimesCalled(ops) ==
    Cardinality({i \in DOMAIN last_call.calls : last_call.calls[i] \in ops})

Creates == {"create_function", "create_workflow"}
Updates == {"update_function", "update_workflow"}

\* C25: a get_function or get_workflow call that returns has (a) made no
\* create, update or cache write when the name was cached with the package
\* hash and the package was not rebuilt, (b) made one update and one cache
\* write of the name with the package hash when the name was cached with
\* another hash or the package was rebuilt, (c) made one create and one
\* cache write when the name was not cached; the object returned carries the
\* package hash in every case.
C25_ThreeCases ==
    (last_call.op # None /\ last_call.ret.ok) =>
        /\ last_call.ret.val.code_package_hash = last_call.hash
        /\ last_call.ret.val.name = last_call.name
        /\ (last_call.cached /\ last_call.old_hash = last_call.hash /\ ~last_call.rebuilt) =>
              /\ TimesCalled(Creates \cup Updates \cup {"add_benchmark"}) = 0
              /\ ~last_call.ret.val.updated_code
        /\ (last_call.cached /\ (last_call.old_hash # last_call.hash \/ last_call.rebuilt)) =>
              /\ TimesCalled(Updates) = 1 /\ TimesCalled(Creates) = 0
              /\ TimesCalled({"add_benchmark"}) = 1
              /\ last_call.name \in DOMAIN cache_functions
              /\ cache_functions[last_call.name].hash = last_call.hash
        /\ ~last_call.cached =>
              /\ TimesCalled(Creates) = 1 /\ TimesCalled(Updates) = 0
              /\ TimesCalled({"add_benchmark"}) = 1
              /\ last_call.name \in DOMAIN cache_functions
              /\ cache_functions[last_call.name].hash = last_call.hash
        /\ last_call.op = "get_function" =>
              TimesCalled({"create_workflow", "update_workflow"}) = 0
        /\ last_call.op = "get_workflow" =>
              TimesCalled({"create_function", "update_function"}) = 0

\* A call has found the name cached with another hash and has updated it.
C25_Witness ==
    /\ last_call.op = "get_workflow" /\ last_call.ret.ok
    /\ last_call.cached /\ last_call.old_hash = "h1" /\ last_call.hash = "h2"
    /\ ~last_call.rebuilt
    /\ last_call.calls = <<"cached_benchmark", "update_workflow", "add_benchmark",
                           "query_cache">>

\* The three cases of C25 have each been reached.
C25_WitnessUnchanged ==
    /\ last_call.ret.ok /\ last_call.cached /\ last_call.calls = <<"cached_benchmark">>

\* C29: when shutdown() has ended, the cache lock is not held: unlock was
\* the last call on the cache client and came after lock, whether
\* update_cache returned or raised, and the exception update_cache raised
\* is the one shutdown() raises; outside shutdown() the lock is not held
\* either.
C29_LockReleased ==
    /\ ~locked
    /\ shut.done =>
          /\ \E i, j \in DOMAIN shut.calls :
                /\ i < j /\ shut.calls[i] = "lock" /\ shut.calls[j] = "unlock"
                /\ j = Len(shut.calls)
          /\ shut.err = (IF shut.update = "ok" THEN None ELSE shut.update)

\* shutdown() has ended by raising what update_cache raised.
C29_Witness == shut.done /\ shut.update = "OSError" /\ shut.err = "OSError"

-----------------------------------------------------------------------------
(* sebs/azure/azure.py: publish_benchmark *)

MaxAttempts == 3    \* publish attempts of one publish_benchmark call

PublishRetryWait == 30

\* A line of the CLI output: whether it holds the marker "Invoke url:", the
\* stripped text after the marker, and whether it holds the words
\* "find app with name".
Line(marker, url, app_not_found) ==
    [marker |-> marker, url |-> url, app_not_found |-> app_not_found]

OutputLines ==
    { Line(FALSE, "", FALSE),
      Line(FALSE, "", TRUE),
      Line(TRUE, "", FALSE),
      Line(TRUE, "https://app/api", FALSE) }

\* What cli_instance.execute does: it returns the output, or raises a
\* RuntimeError whose text may hold the words "find app with name", or
\* raises an exception of another class.
Output(lines) == [kind |-> "output", lines |-> lines, cls |-> None, app_not_found |-> FALSE]

Failure(cls, app_not_found) ==
    [kind |-> "raise", lines |-> <<>>, cls |-> cls, app_not_found |-> app_not_found]

CliAnswers ==
    { Output(lines) : lines \in UNION {[1..n -> OutputLines] : n \in 0..2} }
    \cup { Failure("RuntimeError", nf) : nf \in BOOLEAN }
    \cup { Failure("OSError", TRUE) }

\* Lines 252-257: the url of the first line that holds the marker, "" if
\* there is none.
find_url(lines) ==
    LET marked == {i \in DOMAIN lines : lines[i].marker} IN
    IF marked = {} THEN ""
    ELSE lines[CHOOSE i \in marked : \A j \in marked : i <= j].url

\* The exception the try block of an attempt ends with, None if it ends
\* without one: RuntimeError("Couldnt find URL in " + output) holds the
\* whole output in its text.
attempt_error(ret) ==
    IF ret.kind = "raise" THEN [cls |-> ret.cls, app_not_found |-> ret.app_not_found]
    ELSE IF find_url(ret.lines) = ""
         THEN [cls |-> "RuntimeError",
               app_not_found |-> \E i \in DOMAIN ret.lines : ret.lines[i].app_not_found]
    ELSE [cls |-> None, app_not_found |-> FALSE]

\* Mutant of attempt: every RuntimeError is retried when the flag is set.
attempt_retries_all(ret, repeat) ==
    LET e == attempt_error(ret) IN
    IF e.cls = None THEN [next |-> "return", url |-> find_url(ret.lines), err |-> e]
    ELSE IF e.cls = "RuntimeError" /\ repeat
         THEN [next |-> "retry", url |-> "", err |-> e]
    ELSE [next |-> "raise", url |-> "", err |-> e]

\* One iteration of the loop, lines 243-275: return the url, sleep and go
\* round again, or raise.
attempt(ret, repeat) ==
    LET e == attempt_error(ret) IN
    IF e.cls = None THEN [next |-> "return", url |-> find_url(ret.lines), err |-> e]
    ELSE IF e.cls = "RuntimeError" /\ e.app_not_found /\ repeat
         THEN [next |-> "retry", url |-> "", err |-> e]
    ELSE [next |-> "raise", url |-> "", err |-> e]

PubInit ==
    /\ PubIdle
    /\ SysIdle
    /\ WrapIdle
    /\ inv = <<>>
    /\ file = <<>>
    /\ trigger = <<>>
    /\ cached = <<>>
    /\ restored = <<>>
    /\ provisioned = <<>>
    /\ args = <<>>
    /\ func_arns = <<>>
    /\ loaded = "no"
    /\ perr = None
    /\ states = <<>>
    /\ root = None
    /\ gpc = "idle"
    /\ idx = 0
    /\ payloads = <<>>
    /\ docs = <<>>
    /\ exports = 0

\* publish_benchmark(benchmark, code_package, repeat_on_failure) is called.
PublishCall ==
    /\ ppc = "idle"
    /\ ppc' = "loop"
    /\ repeat_on_failure' \in BOOLEAN
    /\ UNCHANGED <<attempts, waits, published, gvars, tvars, svars, yvars, wvars>>

\* One iteration of the while loop.
PublishAttempt ==
    /\ ppc = "loop"
    /\ \E ret \in CliAnswers :
         LET a == attempt(ret, repeat_on_failure) IN
         /\ a.next = "retry" => Len(attempts) + 1 < MaxAttempts
         /\ attempts' = Append(attempts, ret)
         /\ waits' = IF a.next = "retry" THEN Append(waits, PublishRetryWait) ELSE waits
         /\ ppc' = IF a.next = "retry" THEN "loop" ELSE "done"
         /\ published' = IF a.next = "return" THEN Ok(a.url)
                          ELSE IF a.next = "raise" THEN Raise(a.err)
                          ELSE published
    /\ UNCHANGED <<repeat_on_failure, gvars, tvars, svars, yvars, wvars>>

PubNext == PublishCall \/ PublishAttempt

SpecPub == PubInit /\ [][PubNext]_vars

\* The invoke URL an answer of the CLI holds: the text after the marker on
\* the first line with the marker, "" when the CLI raised or no line holds
\* the marker.
InvokeUrl(ret) ==
    IF \E i \in DOMAIN ret.lines : ret.lines[i].marker
    THEN LET i == CHOOSE k \in DOMAIN ret.lines :
                     ret.lines[k].marker /\ \A j \in 1..(k - 1) : ~ret.lines[j].marker
         IN  ret.lines[i].url
    ELSE ""

\* The attempt failed with a RuntimeError whose text reports that the app
\* was not found: raised by the CLI, or raised for an output without URL,
\* which the text of the error repeats.
NotFoundReported(ret) ==
    \/ ret.kind = "raise" /\ ret.cls = "RuntimeError" /\ ret.app_not_found
    \/ /\ ret.kind = "output" /\ InvokeUrl(ret) = ""
       /\ \E i \in DOMAIN ret.lines : ret.lines[i].app_not_found

\* The attempts the call went on from: all of them while it runs, all but
\* the last when it has ended.
Retried == IF ppc = "done" THEN 1..(Len(attempts) - 1) ELSE DOMAIN attempts

\* C30: publish_benchmark returns only a non-empty invoke URL; it goes on
\* from a failed attempt, after waiting 30 seconds, only if
\* repeat_on_failure is set and the error reports that the app was not
\* found; any other failure, an output without invoke URL included, is
\* raised by the attempt it occurred in; without repeat_on_failure there is
\* one attempt, and with it the call goes on as long as the attempts report
\* that the app was not found, however many there were.
C30_PublishRetries ==
    /\ published.ok => published.val # ""
    /\ \A i \in Retried : repeat_on_failure /\ NotFoundReported(attempts[i])
    /\ Len(waits) = Cardinality(Retried)
    /\ \A i \in DOMAIN waits : waits[i] = PublishRetryWait
    /\ ppc = "done" =>
          LET last == attempts[Len(attempts)] IN
          IF InvokeUrl(last) # ""
          THEN published = Ok(InvokeUrl(last))
          ELSE /\ ~published.ok
               /\ ~(repeat_on_failure /\ NotFoundReported(last))
               /\ published.err.cls =
                     (IF last.kind = "raise" THEN last.cls ELSE "RuntimeError")
    /\ ~repeat_on_failure => (Len(attempts) <= 1 /\ (Len(attempts) = 1 => ppc = "done"))
    /\ (/\ repeat_on_failure /\ attempts # <<>>
        /\ \A i \in DOMAIN attempts : NotFoundReported(attempts[i])) => ppc = "loop"

\* A call with repeat_on_failure has returned the URL at its third attempt,
\* after an app-not-found error and an output without URL that reports the
\* same.
C30_Witness ==
    /\ ppc = "done" /\ repeat_on_failure /\ published = Ok("https://app/api")
    /\ Len(attempts) = 3 /\ waits = <<PublishRetryWait, PublishRetryWait>>
    /\ attempts[1].kind = "raise" /\ attempts[2].kind = "output"

-----------------------------------------------------------------------------
(* benchmarks/wrappers/aws/python/handler.py: the function wrapper *)

MaxInvocations == 2 \* invocations one container serves

\* The payloads of the benchmark: without and with a bucket for the logs.
UserPayloads ==
    { ("data" :> "d"),
      ("data" :> "d") @@ ("logs" :> [bucket |-> "logs-bucket"]) }

EventKinds == {"library", "http", "sqs", "s3"}

\* The event Lambda hands to the handler for an invocation of each kind.
MakeEvent(kind, payload) ==
    IF kind = "library" THEN payload
    ELSE IF kind = "http"
         THEN ("body" :> json_dumps(payload)) @@ ("httpMethod" :> "POST")
    ELSE IF kind = "sqs"
         THEN ("Records" :> << ("eventSource" :> "aws:sqs")
                               @@ ("body" :> json_dumps(payload)) >>)
    ELSE ("Records" :> << ("eventSource" :> "aws:s3")
                          @@ ("s3" :> [bucket |-> [name |-> "in-bucket"],
                                       object |-> [key |-> "payload.json"]]) >>)

\* context: the request id and the segments of invoked_function_arn, with
\* or without a qualifier after the function name.
Contexts ==
    { [aws_request_id |-> "rid",
       invoked_function_arn |-> <<"arn", "aws", "lambda", "eu", "123", "function", n>> \o q] :
        n \in {"f", "g"}, q \in {<<>>, <<"live">>} }

\* function.handler(event): the result, with or without a measurement, or
\* an exception.
FunctionReturns ==
    { [ok |-> TRUE, val |-> ("result" :> "out")],
      [ok |-> TRUE, val |-> ("result" :> "out") @@ ("measurement" :> "m")],
      [ok |-> FALSE, err |-> "Exception"] }

\* Mutant of unwrap: an SQS record leaves return_http set.
unwrap_keeps_http(event, stored) ==
    LET sqs == "Records" \in DOMAIN event
               /\ event["Records"][1]["eventSource"] = "aws:sqs"
        event1 == IF sqs THEN json_loads(event["Records"][1]["body"]) ELSE event
        s3 == "Records" \in DOMAIN event1 /\ "s3" \in DOMAIN event1["Records"][1]
        event2 == IF s3 THEN json_loads(stored) ELSE event1
        event3 == IF "body" \in DOMAIN event2 THEN json_loads(event2["body"]) ELSE event2
    IN  [event |-> event3, return_http |-> ~s3]

\* Lines 12-35: the payload is taken out of the event, and return_http is
\* cleared for an SQS record and for an S3 record; stored is the text of
\* the object the S3 record names.
unwrap(event, stored) ==
    LET sqs == "Records" \in DOMAIN event
               /\ event["Records"][1]["eventSource"] = "aws:sqs"
        event1 == IF sqs THEN json_loads(event["Records"][1]["body"]) ELSE event
        s3 == "Records" \in DOMAIN event1 /\ "s3" \in DOMAIN event1["Records"][1]
        event2 == IF s3 THEN json_loads(stored) ELSE event1
        event3 == IF "body" \in DOMAIN event2 THEN json_loads(event2["body"]) ELSE event2
    IN  [event |-> event3, return_http |-> ~sqs /\ ~s3]

\* handler(event, context): what it returns or raises, the messages it
\* sends, the objects it uploads, and the file /tmp/cold_run afterwards.
\* ret is what function.handler does, d the seconds it takes, and id the
\* value of str(uuid.uuid4())[0:8].
handler(event, context, stored, ret, d, id) ==
    LET u == unwrap(event, stored)
        req_id == context.aws_request_id
        begin == 0
        end == begin + d
    IN
    IF ~ret.ok
    THEN [returned |-> FALSE, err |-> ret.err, response |-> <<>>, sent |-> <<>>,
          uploads |-> <<>>, cold_run |-> cold_run]
    ELSE
    LET log_data0 == IF "measurement" \in DOMAIN ret.val
                     THEN ("output" :> ret.val["result"])
                          @@ ("measurement" :> ret.val["measurement"])
                     ELSE ("output" :> ret.val["result"])
        logs == "logs" \in DOMAIN u.event
        log_data == IF logs THEN log_data0 @@ ("time" :> "end - begin") ELSE log_data0
        uploads == IF logs
                   THEN << [bucket |-> u.event["logs"].bucket,
                            key |-> req_id \o ".json",
                            body |-> utf8(json_dumps(log_data))] >>
                   ELSE <<>>
        is_cold == cold_run = None
        container_id == IF is_cold THEN id ELSE cold_run
        stats == json_dumps([begin |-> begin, end |-> end,
                             results_time |-> IF logs THEN 1 ELSE 0,
                             is_cold |-> is_cold, result |-> log_data,
                             request_id |-> req_id, cold_start_var |-> "",
                             container_id |-> container_id])
        arn == context.invoked_function_arn
    IN  IF u.return_http
        THEN [returned |-> TRUE, err |-> None,
              response |-> << [statusCode |-> 200, body |-> stats] >>,
              sent |-> <<>>, uploads |-> uploads, cold_run |-> container_id]
        ELSE [returned |-> TRUE, err |-> None, response |-> <<>>,
              sent |-> << [queue |-> arn[7] \o "-result", account_id |-> arn[5],
                           region |-> arn[4], body |-> stats] >>,
              uploads |-> uploads, cold_run |-> container_id]

WrapInit ==
    /\ WrapIdle
    /\ SysIdle
    /\ PubIdle
    /\ inv = <<>>
    /\ file = <<>>
    /\ trigger = <<>>
    /\ cached = <<>>
    /\ restored = <<>>
    /\ provisioned = <<>>
    /\ args = <<>>
    /\ func_arns = <<>>
    /\ loaded = "no"
    /\ perr = None
    /\ states = <<>>
    /\ root = None
    /\ gpc = "idle"
    /\ idx = 0
    /\ payloads = <<>>
    /\ docs = <<>>
    /\ exports = 0

\* Lambda invokes the handler in the container with an event of some kind.
Handle ==
    /\ ninv < MaxInvocations
    /\ \E kind \in EventKinds, payload \in UserPayloads, context \in Contexts,
          ret \in FunctionReturns, d \in Latencies, id \in UUIDS :
         LET r == handler(MakeEvent(kind, payload), context, json_dumps(payload),
                          ret, d, id)
         IN  /\ wrapped' = [kind |-> kind,
                            function |-> context.invoked_function_arn[7],
                            request_id |-> context.aws_request_id,
                            logs |-> "logs" \in DOMAIN payload,
                            returned |-> r.returned, sent |-> r.sent,
                            response |-> r.response, uploads |-> r.uploads,
                            err |-> r.err]
             /\ cold_run' = r.cold_run
    /\ ninv' = ninv + 1
    /\ UNCHANGED <<gvars, tvars, svars, yvars, pvars>>

\* The container is replaced by a fresh one.
Recycle ==
    /\ cold_run # None /\ ninv < MaxInvocations
    /\ cold_run' = None
    /\ UNCHANGED <<wrapped, ninv, gvars, tvars, svars, yvars, pvars>>

WrapNext == Handle \/ Recycle

SpecWrap == WrapInit /\ [][WrapNext]_vars

\* C28: an invocation of the wrapper that returns has delivered its record
\* through one channel: for an SQS or S3 event, one message to the queue
\* <function>-result and no response; for a library or HTTP event, a
\* response of status 200 whose body is the record and no message.  An
\* invocation in which the benchmark function raised has delivered nothing.
C28_OneChannel ==
    /\ (wrapped.kind \in {"sqs", "s3"} /\ wrapped.returned) =>
          /\ Len(wrapped.sent) = 1
          /\ wrapped.sent[1].queue = wrapped.function \o "-result"
          /\ json_loads(wrapped.sent[1].body).request_id = wrapped.request_id
          /\ json_loads(wrapped.sent[1].body).result["output"] = "out"
          /\ wrapped.response = <<>>
    /\ (wrapped.kind \in {"library", "http"} /\ wrapped.returned) =>
          /\ wrapped.sent = <<>>
          /\ Len(wrapped.response) = 1
          /\ wrapped.response[1].statusCode = 200
          /\ json_loads(wrapped.response[1].body).request_id = wrapped.request_id
          /\ json_loads(wrapped.response[1].body).result["output"] = "out"
    /\ ~wrapped.returned => (wrapped.sent = <<>> /\ wrapped.response = <<>>)

\* An SQS invocation of the function g, qualified by an alias, has sent its
\* record to g-result.
C28_Witness ==
    /\ wrapped.kind = "sqs" /\ wrapped.returned /\ wrapped.logs
    /\ Len(wrapped.sent) = 1 /\ wrapped.sent[1].queue = "g-result"
    /\ Len(wrapped.uploads) = 1

\* An HTTP invocation has returned its record in a response.
C28_WitnessHttp ==
    /\ wrapped.kind = "http" /\ wrapped.returned /\ Len(wrapped.response) = 1

====
